---- MODULE Spec2Model ----
(***************************************************************************)
(* openrouter-cli: one invocation of main (src/main.go, the multi-provider *)
(* program of lines 409-1024).  main validates the environment, reads the  *)
(* prompt, issues one HTTP POST and interprets the response either as one  *)
(* JSON body (sendRequest) or as a line stream (sendStreamingRequest: SSE  *)
(* frames for openrouter/lmstudio, newline-delimited JSON for ollama).     *)
(*                                                                         *)
(* Texts are strings; standard output is the sequence of writes made to it.*)
(* A JSON document is a record of the fields the decoders look at.         *)
(***************************************************************************)
EXTENDS Integers, Sequences, FiniteSets, TLC

\* ---------------------------------------------------------------- bounds
\* Lines the scanner hands to the streaming loop in one invocation.
MaxLines == 3
\* Characters of a text read from standard input.
MaxPrompt == 3

\* ------------------------------------------------------------- constants
ProviderOpenRouter == "openrouter"
ProviderOllama == "ollama"
ProviderLMStudio == "lmstudio"

StatusOK == 200

\* The literal SSE prefix and end marker of the streaming loop.
\* Names of the environment variables main reads.
envAPIKey == "OPENROUTER_API_KEY"
envProvider == "LLM_PROVIDER"
envModel == "LLM_MODEL"
envStream == "LLM_STREAM"
envVerbose == "LLM_VERBOSE"
envOllamaURL == "OLLAMA_URL"
envLMStudioURL == "LM_STUDIO_URL"

userAgent == "OpenRouter-CLI/1.0"
openRouterURL == "https://openrouter.ai/api/v1/chat/completions"
defaultOllamaURL == "http://localhost:11434/api/chat"
defaultLMStudioURL == "http://10.8.0.22:1234/v1/chat/completions"

DataPrefix == "data: "
DoneMarker == "[DONE]"

\* ------------------------------------------------------------ JSON values
\* The `error` member of a JSON object: absent, null, a string or an object
\* {message, type}.  For kind "string" the text is in `message`.
ErrAbsent == [kind |-> "absent", message |-> "", type |-> ""]
ErrNull == [kind |-> "null", message |-> "", type |-> ""]
ErrObject(m, t) == [kind |-> "object", message |-> m, type |-> t]
ErrString(s) == [kind |-> "string", message |-> s, type |-> ""]

\* One element of `choices`.
Choice(d, m, f) == [delta |-> d, message |-> m, finish_reason |-> f]

\* A payload: raw = "json" for a JSON object with the members below, any
\* other raw is literal text that is not a JSON value.
Json(cs, e, m, d) ==
  [raw |-> "json", choices |-> cs, error |-> e, message |-> m, done |-> d]
Text(s) ==
  [raw |-> s, choices |-> <<>>, error |-> ErrAbsent, message |-> "", done |-> FALSE]

\* A line of the response body: its leading bytes and the rest.
Line(pre, p) == [prefix |-> pre, payload |-> p]

\* OpenRouterResponse as filled by json.Unmarshal: a JSON string cannot be
\* stored in the *struct field Error, null and absent leave it nil.
UnmarshalOpenRouter(p) ==
  [ok |-> p.raw = "json" /\ p.error.kind # "string",
   Choices |-> p.choices,
   ErrorNil |-> p.error.kind \in {"absent", "null"},
   ErrorMessage |-> p.error.message,
   ErrorType |-> p.error.type]

\* OllamaResponse with an Error field that also takes the message of an
\* error object.
UnmarshalOllama_anyError(p) ==
  [ok |-> p.raw = "json",
   Content |-> p.message,
   Done |-> p.done,
   Error |-> IF p.error.kind \in {"string", "object"} THEN p.error.message ELSE ""]

\* OllamaResponse as filled by json.Unmarshal: a JSON object cannot be
\* stored in the string field Error, null and absent leave it "".
UnmarshalOllama(p) ==
  [ok |-> p.raw = "json" /\ p.error.kind # "object",
   Content |-> p.message,
   Done |-> p.done,
   Error |-> IF p.error.kind = "string" THEN p.error.message ELSE ""]

\* ---------------------------------------------------------------- errors
\* An error value: kind names the message format of the fmt.Errorf that
\* built it, the other fields are its arguments.
Err(k, st, t, m) == [kind |-> k, status |-> st, type |-> t, msg |-> m]
NoErr == Err("nil", 0, "", "")

\* What a send function returns: (text, error); text is "" for
\* sendStreamingRequest, which returns an error only.
Ret(t, e) == [text |-> t, err |-> e]
NoRet == Ret("", Err("pending", 0, "", ""))

\* ----------------------------------------------------------------- texts
\* A prompt is a Go string, here the sequence of its characters.  BadByte
\* is a byte that is not part of a valid UTF-8 encoding, Replacement the
\* character U+FFFD.
BadByte == "\\xff"
Replacement == "U+FFFD"
Chars == {" ", "a", "\"", BadByte}

\* strings.TrimSpace: leading and trailing white space removed.
IsSpace(c) == c \in {" ", "\n", "\t", "\r"}
RECURSIVE TrimLeft(_)
TrimLeft(t) == IF t # <<>> /\ IsSpace(Head(t)) THEN TrimLeft(Tail(t)) ELSE t
RECURSIVE TrimRight(_)
TrimRight(t) ==
  IF t # <<>> /\ IsSpace(t[Len(t)])
    THEN TrimRight(SubSeq(t, 1, Len(t) - 1))
    ELSE t
TrimSpace(t) == TrimRight(TrimLeft(t))

\* json.Marshal of a string, as the characters between the quotes: a quote
\* and a control character are escaped, and a byte that is not valid UTF-8
\* is written as the escape of U+FFFD.
EscapeChar(c) ==
  CASE c = "\"" -> "\\\""
    [] c = "\n" -> "\\n"
    [] c = BadByte -> "\\ufffd"
    [] OTHER -> c
jsonString(t) == [i \in 1..Len(t) |-> EscapeChar(t[i])]

\* ---------------------------------------------------------------- inputs
\* Environment values as main sees them after TrimSpace and ToLower.
\* The value of an environment variable is a sequence of pieces: a piece
\* is a white-space character or a run of other characters.  Val(s) is the
\* value made of the one run s, the unset variable when s is empty.
Val(s) == IF s = "" THEN <<>> ELSE <<s>>

\* string(t) of a trimmed value: its one run, "" when nothing is left.
Piece(t) == IF t = <<>> THEN "" ELSE t[1]

\* strings.ToLower, on the runs the environment is drawn from.
ToLower(t) ==
  [i \in 1..Len(t) |->
     CASE t[i] = "TRUE" -> "true"
       [] t[i] = "On" -> "on"
       [] t[i] = "Ollama" -> "ollama"
       [] OTHER -> t[i]]

\* os.Getenv(key) in the environment e; a variable that is not set is empty.
Getenv(e, key) == IF key \in DOMAIN e THEN e[key] ELSE <<>>

\* isEnvSet(key) in the environment e.
isEnvSet(e, key) ==
  LET val == Piece(ToLower(TrimSpace(Getenv(e, key)))) IN
  val = "1" \/ val = "true" \/ val = "yes" \/ val = "on"

ProviderEnv == {"", ProviderOpenRouter, ProviderOllama, ProviderLMStudio, "bogus"}
ApiKeyEnv == {"", "sk-key"}
StdinTexts == {<<>>, <<" ">>, <<" ", "a", " ">>}
PrePromptEnv == {<<>>, <<"b">>, <<" ", "b">>}

\* Every text of at most MaxPrompt characters.
StdinBytes == UNION {[1..n -> Chars] : n \in 0..MaxPrompt}
Statuses == {StatusOK, 401, 500}

\* Response lines of an SSE server.
SSELines ==
  { Line(DataPrefix, Text(DoneMarker)),
    Line(DataPrefix, Text("{not json}")),
    Line(DataPrefix, Json(<<Choice("He", "", "")>>, ErrAbsent, "", FALSE)),
    Line(DataPrefix, Json(<<Choice("llo", "", "")>>, ErrAbsent, "", FALSE)),
    Line(DataPrefix, Json(<<Choice("", "Full", "")>>, ErrNull, "", FALSE)),
    Line(DataPrefix, Json(<<Choice("He", "Full", "")>>, ErrAbsent, "", FALSE)),
    Line(DataPrefix, Json(<<Choice("", "", "")>>, ErrAbsent, "", FALSE)),
    Line(DataPrefix, Json(<<Choice("!", "", "stop")>>, ErrAbsent, "", FALSE)),
    Line(DataPrefix, Json(<<Choice("", "", "stop")>>, ErrAbsent, "", FALSE)),
    Line(DataPrefix, Json(<<Choice("", "", ""), Choice("X", "", "stop")>>,
                          ErrAbsent, "", FALSE)),
    Line(DataPrefix, Json(<<>>, ErrAbsent, "", FALSE)),
    Line(DataPrefix, Json(<<Choice("He", "", "stop")>>,
                          ErrObject("rate limited", "limit"), "", TRUE)),
    Line(DataPrefix, Json(<<Choice("He", "", "")>>, ErrString("boom"), "", FALSE)),
    Line("", Text("")),
    Line("data:", Text(DoneMarker)) }

\* Response lines of an ollama server.
OllamaLines ==
  { Line("", Json(<<>>, ErrAbsent, "Hi", FALSE)),
    Line("", Json(<<>>, ErrAbsent, " there", FALSE)),
    Line("", Json(<<>>, ErrAbsent, "", FALSE)),
    Line("", Json(<<>>, ErrAbsent, "", TRUE)),
    Line("", Json(<<>>, ErrNull, "!", TRUE)),
    Line("", Json(<<>>, ErrString("boom"), "Hi", TRUE)),
    Line("", Json(<<>>, ErrString(""), "Hi", FALSE)),
    Line("", Json(<<>>, ErrObject("rate limited", "limit"), "Hi", TRUE)),
    Line("", Text("{not json}")),
    Line("", Text("")),
    Line(DataPrefix, Text(DoneMarker)) }

\* The lines a server of provider p may send.
LinesOf(p) == IF p = ProviderOllama THEN OllamaLines ELSE SSELines

\* The sticky error of a bufio.Scanner: "nil" while reads succeed, then the
\* error of the read that failed; io.EOF is the clean end of the body.
ReadErrors == {"EOF", "read", "deadline"}

\* HTTP response bodies.
Bodies ==
  { Text("{not json}"),
    Text(""),
    Json(<<Choice("", "hi", "stop")>>, ErrAbsent, "", FALSE),
    Json(<<Choice("", "hi", "stop"), Choice("", "other", "stop")>>, ErrNull, "", FALSE),
    Json(<<>>, ErrAbsent, "", FALSE),
    Json(<<>>, ErrObject("bad key", "auth"), "", FALSE),
    Json(<<>>, ErrObject("", "auth"), "", FALSE),
    Json(<<Choice("", "hi", "stop")>>, ErrObject("bad key", "auth"), "", FALSE),
    Json(<<>>, ErrAbsent, "hi", TRUE),
    Json(<<>>, ErrString("model not found"), "", FALSE),
    Json(<<>>, ErrString("model not found"), "hi", TRUE),
    Json(<<>>, ErrString(""), "hi", TRUE),
    Json(<<Choice("", "", "stop"), Choice("", "other", "stop")>>, ErrAbsent, "", FALSE) }

\* Nothing read by prepareInput yet, no request built yet.
\* The environments of an invocation: the provider, the key and the
\* streaming switch vary, everything else is unset; openrouter is the
\* provider of an unset LLM_PROVIDER.
Environs ==
  [LLM_PROVIDER : {Val(p) : p \in ProviderEnv \ {ProviderOpenRouter}},
   OPENROUTER_API_KEY : {Val(k) : k \in ApiKeyEnv},
   LLM_MODEL : {<<>>},
   LLM_STREAM : {<<>>, <<"1">>},
   LLM_VERBOSE : {<<>>},
   OLLAMA_URL : {<<>>},
   LM_STUDIO_URL : {<<>>},
   OPENROUTER_STREAM : {<<>>}]

\* Environments that also name a model and the servers' addresses.
BuildEnvirons ==
  [LLM_PROVIDER : {Val(p) : p \in ProviderEnv},
   OPENROUTER_API_KEY : {Val(k) : k \in ApiKeyEnv},
   LLM_MODEL : {<<>>, <<" ", "gpt-x">>},
   LLM_STREAM : {<<>>, <<"1">>},
   LLM_VERBOSE : {<<>>},
   OLLAMA_URL : {<<>>, <<"http://ollama.lan/api/chat">>},
   LM_STUDIO_URL : {<<>>},
   OPENROUTER_STREAM : {<<>>}]

\* Environments over the spellings of the key and of the switches,
\* with the variable OPENROUTER_STREAM that the README names.
SwitchEnvirons ==
  [LLM_PROVIDER : {<<>>, <<"Ollama">>, <<"lmstudio", " ">>, <<"bogus">>},
   OPENROUTER_API_KEY : {<<>>, <<" ">>, <<"sk-key">>, <<" ", "sk-key", " ">>},
   LLM_MODEL : {<<>>},
   LLM_STREAM : {<<>>, <<"1">>, <<"true">>, <<"yes">>, <<"on">>, <<"TRUE">>,
                 <<" ", "On", " ">>, <<"0">>, <<"false">>, <<"enabled">>},
   LLM_VERBOSE : {<<>>, <<"yes">>},
   OLLAMA_URL : {<<>>},
   LM_STUDIO_URL : {<<>>},
   OPENROUTER_STREAM : {<<>>, <<"1">>}]

\* Verbose invocations, with two keys.
VerboseEnvirons ==
  [LLM_PROVIDER : {Val(p) : p \in ProviderEnv \ {ProviderOpenRouter, "bogus"}},
   OPENROUTER_API_KEY : {<<"sk-key">>, <<"sk-other">>},
   LLM_MODEL : {<<>>},
   LLM_STREAM : {<<>>, <<"1">>},
   LLM_VERBOSE : {<<"1">>},
   OLLAMA_URL : {<<>>},
   LM_STUDIO_URL : {<<>>},
   OPENROUTER_STREAM : {<<>>}]

NoEnviron == [LLM_PROVIDER |-> <<>>]
NoEnv == [stdin |-> <<>>, prePrompt |-> <<>>]
NoRequest ==
  [url |-> "", headers |-> {}, order |-> <<>>,
   model |-> "", messages |-> <<>>, stream |-> "omitted"]

\* No body read yet.
NoBody == Text("")

\* string(body): the text of a body, as the HTTP error message quotes it.
string(b) == IF b.raw = "json" THEN ToString(b) ELSE b.raw

\* ----------------------------------------------------------------- state
VARIABLES
  pc,          \* where the invocation stands
  program,     \* which main runs: "main" (main.go) or "cmd" (the cmd client)
  provider,    \* main's provider
  apiKey,      \* main's apiKey
  stream,      \* main's stream flag
  environ,     \* the environment main read its configuration from
  model,       \* main's model
  verbose,     \* main's verbose flag
  log,         \* the lines written through log.Printf, in order
  env,         \* what prepareInput read: standard input and LLM_PRE_PROMPT
  input,       \* the prompt prepareInput returned
  request,     \* the body json.Marshal built for the POST
  posts,       \* HTTP POSTs handed to client.Do
  status,      \* resp.StatusCode, 0 before a response
  body,        \* the response body io.ReadAll returned
  ctxErr,      \* ctx.Err() of the request's context
  consumed,    \* the lines scanner.Text() returned so far, in order
  scanErr,     \* the scanner's sticky read error, "nil" if none
  chunkCount,  \* chunkCount of the streaming loop
  out,         \* standard output: the writes made to it, in order
  ret,         \* what sendRequest / sendStreamingRequest returned
  fatal,       \* the errors reported through log.Fatalf, in order
  exitCode     \* process exit status, -1 while running

vars == <<pc, program, provider, apiKey, stream, environ, model, verbose, log,
          env, input, request, posts,
          status, body,
          ctxErr, consumed,
          scanErr, chunkCount, out, ret, fatal, exitCode>>

Newline == "\n"

Init ==
  /\ pc = "main"
  /\ program = ""
  /\ provider = ""
  /\ apiKey = ""
  /\ stream = FALSE
  /\ environ = NoEnviron
  /\ model = ""
  /\ verbose = FALSE
  /\ log = <<>>
  /\ env = NoEnv
  /\ input = <<>>
  /\ request = NoRequest
  /\ posts = 0
  /\ status = 0
  /\ body = NoBody
  /\ ctxErr = "nil"
  /\ consumed = <<>>
  /\ scanErr = "nil"
  /\ chunkCount = 0
  /\ out = <<>>
  /\ ret = NoRet
  /\ fatal = <<>>
  /\ exitCode = -1

\* One log.Printf call: the format and the values printed with it.
Log(fmt, args) == [fmt |-> fmt, args |-> args]

\* The log after the lines were printed under `if verbose`.
Logged(v, lines) == IF v THEN log \o lines ELSE log

\* log.Fatalf: the message goes to the log and the process exits with 1.
Fatalf(e) ==
  /\ fatal' = Append(fatal, e)
  /\ exitCode' = 1
  /\ pc' = "exit"

\* main's model when LLM_MODEL is not set.
defaultModel(p) ==
  IF p = ProviderOllama THEN "llama2"
  ELSE IF p = ProviderLMStudio THEN "local-model"
  ELSE "openai/gpt-oss-20b:free"

\* main's ollamaURL and lmStudioURL in the environment e.
ollamaURL(e) ==
  LET u == Piece(TrimSpace(Getenv(e, envOllamaURL))) IN
  IF u = "" THEN defaultOllamaURL ELSE u

lmStudioURL(e) ==
  LET u == Piece(TrimSpace(Getenv(e, envLMStudioURL))) IN
  IF u = "" THEN defaultLMStudioURL ELSE u

\* main requiring the key for every provider.
main_config_keyForAll(e) ==
  /\ pc = "main"
  /\ LET providerStr == Piece(ToLower(TrimSpace(Getenv(e, envProvider))))
         p == IF providerStr = "" THEN ProviderOpenRouter ELSE providerStr
         key == Piece(TrimSpace(Getenv(e, envAPIKey)))
         m == Piece(TrimSpace(Getenv(e, envModel)))
     IN
       /\ provider' = p
       /\ apiKey' = key
       /\ model' = IF m = "" THEN defaultModel(p) ELSE m
       /\ stream' = isEnvSet(e, envStream)
       /\ verbose' = isEnvSet(e, envVerbose)
       /\ IF p \notin {ProviderOpenRouter, ProviderOllama, ProviderLMStudio}
            THEN Fatalf(Err("Invalid provider", 0, "", p))
            ELSE IF key = ""
              THEN Fatalf(Err("API key is required", 0, "", ""))
              ELSE /\ pc' = "input"
                   /\ UNCHANGED <<fatal, exitCode>>
  /\ environ' = e
  /\ program' = "main"
  /\ UNCHANGED <<log, env, input, request, posts, status, body, ctxErr,
                 consumed, scanErr, chunkCount, out, ret>>

\* main up to the input, in the environment e: provider, key, model,
\* addresses and switches; an unknown provider and a missing key for
\* openrouter are fatal; the configuration is logged when verbose.
main_config(e) ==
  /\ pc = "main"
  /\ LET providerStr == Piece(ToLower(TrimSpace(Getenv(e, envProvider))))
         p == IF providerStr = "" THEN ProviderOpenRouter ELSE providerStr
         key == Piece(TrimSpace(Getenv(e, envAPIKey)))
         m == Piece(TrimSpace(Getenv(e, envModel)))
         modelName == IF m = "" THEN defaultModel(p) ELSE m
         v == isEnvSet(e, envVerbose)
     IN
       /\ provider' = p
       /\ apiKey' = key
       /\ model' = modelName
       /\ stream' = isEnvSet(e, envStream)
       /\ verbose' = v
       /\ IF p \notin {ProviderOpenRouter, ProviderOllama, ProviderLMStudio}
            THEN /\ Fatalf(Err("Invalid provider", 0, "", p))
                 /\ UNCHANGED log
            ELSE IF p = ProviderOpenRouter /\ key = ""
              THEN /\ Fatalf(Err("API key is required", 0, "", ""))
                   /\ UNCHANGED log
              ELSE /\ pc' = "input"
                   /\ log' = Logged(v,
                        <<Log("Starting LLM CLI", {}),
                          Log("Provider: %s", {p}),
                          Log("Model: %s", {modelName}),
                          Log("Streaming: %v", {ToString(isEnvSet(e, envStream))})>>
                        \o (IF p = ProviderOllama
                              THEN <<Log("Ollama URL: %s", {ollamaURL(e)})>>
                              ELSE <<>>)
                        \o (IF p = ProviderLMStudio
                              THEN <<Log("LM Studio URL: %s", {lmStudioURL(e)})>>
                              ELSE <<>>))
                   /\ UNCHANGED <<fatal, exitCode>>
  /\ environ' = e
  /\ program' = "main"
  /\ UNCHANGED <<env, input, request, posts, status, body, ctxErr, consumed,
                 scanErr, chunkCount, out, ret>>

\* prepareInput without the test for an empty input.
prepareInput_acceptsEmpty(data, prePrompt) ==
  /\ pc = "input"
  /\ env' = [stdin |-> data, prePrompt |-> prePrompt]
  /\ input' = IF prePrompt # <<>>
                THEN prePrompt \o <<"\n", "\n">> \o TrimSpace(data)
                ELSE TrimSpace(data)
  /\ pc' = "send"
  /\ UNCHANGED <<program, provider, apiKey, stream, environ, model, verbose, log,
                 request, posts, status, body, ctxErr, consumed, scanErr,
                 chunkCount, out, ret, fatal, exitCode>>

\* prepareInput returning the text of stdin as it was read.
prepareInput_untrimmed(data, prePrompt) ==
  /\ pc = "input"
  /\ env' = [stdin |-> data, prePrompt |-> prePrompt]
  /\ IF TrimSpace(data) = <<>>
       THEN /\ Fatalf(Err("input is empty", 0, "", ""))
            /\ UNCHANGED input
       ELSE /\ input' = IF prePrompt # <<>>
                          THEN prePrompt \o <<"\n", "\n">> \o data
                          ELSE data
            /\ pc' = "send"
            /\ UNCHANGED <<fatal, exitCode>>
  /\ log' = Logged(verbose,
       <<Log("Reading input from stdin...", {})>>
       \o (IF TrimSpace(data) # <<>> /\ prePrompt # <<>>
             THEN <<Log("Prepending pre-prompt (length: %d)",
                        {ToString(Len(prePrompt))})>>
             ELSE <<>>)
       \o (IF TrimSpace(data) # <<>>
             THEN <<Log("Input length: %d characters", {ToString(Len(input'))})>>
             ELSE <<>>))
  /\ UNCHANGED <<program, provider, apiKey, stream, environ, model, verbose, request, posts, status,
                 body, ctxErr, consumed, scanErr, chunkCount, out, ret>>

\* prepareInput with standard input data and LLM_PRE_PROMPT prePrompt: the
\* trimmed text of stdin, an error if that is empty; a non-empty pre-prompt,
\* taken as it is, and an empty line are put in front of it.
prepareInput(data, prePrompt) ==
  /\ pc = "input"
  /\ env' = [stdin |-> data, prePrompt |-> prePrompt]
  /\ LET trimmed == TrimSpace(data) IN
       IF trimmed = <<>>
         THEN /\ Fatalf(Err("input is empty", 0, "", ""))
              /\ UNCHANGED input
         ELSE /\ input' = IF prePrompt # <<>>
                            THEN prePrompt \o <<"\n", "\n">> \o trimmed
                            ELSE trimmed
              /\ pc' = "send"
              /\ UNCHANGED <<fatal, exitCode>>
  /\ log' = Logged(verbose,
       <<Log("Reading input from stdin...", {})>>
       \o (IF TrimSpace(data) # <<>> /\ prePrompt # <<>>
             THEN <<Log("Prepending pre-prompt (length: %d)",
                        {ToString(Len(prePrompt))})>>
             ELSE <<>>)
       \o (IF TrimSpace(data) # <<>>
             THEN <<Log("Input length: %d characters", {ToString(Len(input'))})>>
             ELSE <<>>))
  /\ UNCHANGED <<program, provider, apiKey, stream, environ, model, verbose, request, posts, status,
                 body, ctxErr, consumed, scanErr, chunkCount, out, ret>>

\* A send function returns r to main.
Return(r) ==
  /\ ret' = r
  /\ pc' = "ret"

\* The main of the cmd client up to the request: an OpenRouterClient with
\* the configured key, and ProcessInput with the text of its input source,
\* which is trimmed and refused if empty.  There is no streaming; the
\* model is the default of DefaultConfig and -verbose is not given.
OpenRouterClient_ProcessInput(key, data) ==
  /\ pc = "main"
  /\ key # ""
  /\ program' = "cmd"
  /\ provider' = ProviderOpenRouter
  /\ apiKey' = key
  /\ stream' = FALSE
  /\ model' = "anthropic/claude-3.7-sonnet:thinking"
  /\ env' = [stdin |-> data, prePrompt |-> <<>>]
  /\ LET trimmed == TrimSpace(data) IN
       IF trimmed = <<>>
         THEN /\ Return(Ret("", Err("input is empty", 0, "", "")))
              /\ UNCHANGED input
         ELSE /\ input' = trimmed
              /\ pc' = "send"
              /\ UNCHANGED ret
  /\ UNCHANGED <<environ, verbose, log, request, posts, status, body, ctxErr,
                 consumed, scanErr, chunkCount, out, fatal, exitCode>>

\* ctx.Err() after an operation that ended with cause: the deadline of
\* context.WithTimeout has passed when the cause is "deadline".
Expire(cause) == IF cause = "deadline" THEN "DeadlineExceeded" ELSE ctxErr


\* json.Marshal of the ChatMessage list of a request: one user message.
Messages(content) == <<[role |-> "user", content |-> jsonString(content)]>>

\* json.Marshal of a request whose Stream field is written always.
Marshal_streamAlways(prog, p, modelName, content, streaming) ==
  [model |-> modelName,
   messages |-> Messages(content),
   stream |-> IF streaming THEN "true" ELSE "false"]

\* The bytes json.Marshal makes of reqBody, as the members of the object
\* and their JSON texts.  The map of the ollama request always has its
\* `stream` member; OpenRouterRequest.Stream is omitempty and the request of
\* the cmd client has no such field.
Marshal(prog, p, modelName, content, streaming) ==
  [model |-> modelName,
   messages |-> Messages(content),
   stream |-> IF prog = "main" /\ p = ProviderOllama
                THEN (IF streaming THEN "true" ELSE "false")
                ELSE (IF prog = "main" /\ streaming THEN "true" ELSE "omitted")]

\* json.Marshal writing the keys of a map in the order of an iteration
\* over it, which differs from one call to the next.
MarshalOrders_mapIteration(prog, p, streaming) ==
  IF prog = "main" /\ p = ProviderOllama
    THEN {<<"messages", "model", "stream">>, <<"model", "messages", "stream">>,
          <<"stream", "model", "messages">>, <<"model", "stream", "messages">>,
          <<"messages", "stream", "model">>, <<"stream", "messages", "model">>}
    ELSE IF prog = "main" /\ streaming
      THEN {<<"model", "messages", "stream">>}
      ELSE {<<"model", "messages">>}

\* The orders in which json.Marshal may write the members of reqBody: the
\* fields of a struct in the order of their declaration, the keys of a
\* map sorted, and no member for an omitted field.
MarshalOrders(prog, p, streaming) ==
  IF prog = "main" /\ p = ProviderOllama
    THEN {<<"messages", "model", "stream">>}
    ELSE IF prog = "main" /\ streaming
      THEN {<<"model", "messages", "stream">>}
      ELSE {<<"model", "messages">>}

\* getAPIURL.
getAPIURL(p, ollama, lmStudio) ==
  IF p = ProviderOllama THEN ollama
  ELSE IF p = ProviderLMStudio THEN lmStudio
  ELSE openRouterURL

\* The headers with the key sent to any provider.
Headers_keyToAll(prog, p, key) ==
  {<<"Content-Type", <<"application/json">>>>,
   <<"User-Agent", <<userAgent>>>>}
  \cup (IF key # ""
          THEN {<<"Authorization", <<"Bearer ", key>>>>,
                <<"Referer",
                  <<"https://github.com/blackopsinc/openrouter-cli">>>>,
                <<"X-Title", <<"OpenRouter CLI">>>>}
          ELSE {})

\* The headers set on the request, as pairs of name and value.
Headers(prog, p, key) ==
  IF prog = "cmd"
    THEN {<<"Content-Type", <<"application/json">>>>,
          <<"Authorization", <<"Bearer ", key>>>>,
          <<"User-Agent", <<userAgent>>>>,
          <<"HTTP-Referer", <<"https://github.com/openrouter-cli">>>>,
          <<"X-Title", <<"OpenRouter CLI">>>>}
    ELSE {<<"Content-Type", <<"application/json">>>>,
          <<"User-Agent", <<userAgent>>>>}
         \cup (IF p = ProviderOpenRouter /\ key # ""
                 THEN {<<"Authorization", <<"Bearer ", key>>>>,
                       <<"Referer",
                         <<"https://github.com/blackopsinc/openrouter-cli">>>>,
                       <<"X-Title", <<"OpenRouter CLI">>>>}
                 ELSE {})

\* The POST request of http.NewRequestWithContext with its headers set:
\* address, headers, and the body b with its members in order o.
NewRequest(u, h, o, b) ==
  [url |-> u, headers |-> h, order |-> o,
   model |-> b.model, messages |-> b.messages, stream |-> b.stream]

\* The log before client.Do with the request's headers dumped as well.
requestLog_dumpsHeaders(streaming, u, b) ==
  <<Log(IF streaming THEN "Streaming request URL: %s" ELSE "Request URL: %s", {u}),
    Log("Request body size: %d bytes", {ToString(Len(b.messages[1].content))}),
    Log("Request model: %s", {b.model}),
    Log("Request headers: %v",
        UNION {{h[1]} \cup {h[2][i] : i \in 1..Len(h[2])} : h \in b.headers}),
    Log(IF streaming THEN "Sending streaming HTTP POST request..."
                     ELSE "Sending HTTP POST request...", {})>>

\* What a send function logs before client.Do.
requestLog(streaming, u, b) ==
  <<Log(IF streaming THEN "Streaming request URL: %s" ELSE "Request URL: %s", {u}),
    Log("Request body size: %d bytes", {ToString(Len(b.messages[1].content))}),
    Log("Request model: %s", {b.model}),
    Log(IF streaming THEN "Sending streaming HTTP POST request..."
                     ELSE "Sending HTTP POST request...", {})>>

\* What a send function logs of the response to client.Do.
responseLog(streaming, st) ==
  <<Log("Response status: %d %s", {ToString(st)}),
    Log(IF streaming THEN "Content-Type: %s" ELSE "Response headers: %v",
        {"resp.Header"})>>

\* client.Do failed: the context's deadline passed, or any other failure.
DoError(cause) ==
  IF Expire(cause) = "DeadlineExceeded"
    THEN Err("request timed out", 0, "", "")
    ELSE Err("failed to send request", 0, "", cause)

\* ----------------------------------------------------------- sendRequest
\* The error for a status other than 200 with a failed decode of the body
\* returned as a parse failure.
httpError_strict(p, st, b) ==
  IF p = ProviderOllama
    THEN LET r == UnmarshalOllama(b) IN
         IF ~r.ok THEN Err("failed to parse Ollama response", 0, "", "")
         ELSE IF r.Error # ""
           THEN Err("HTTP - Ollama error", st, "", r.Error)
           ELSE Err("HTTP", st, "", string(b))
    ELSE LET r == UnmarshalOpenRouter(b) IN
         IF ~r.ok THEN Err("failed to parse response", 0, "", "")
         ELSE IF ~r.ErrorNil
           THEN Err("HTTP - API error", st, r.ErrorType, r.ErrorMessage)
           ELSE Err("HTTP", st, "", string(b))

\* What the send functions return for a status other than 200: the API
\* error of the body's envelope when it decodes with one, else the body.
httpError(p, st, b) ==
  IF p = ProviderOllama
    THEN LET r == UnmarshalOllama(b) IN
         IF r.ok /\ r.Error # ""
           THEN Err("HTTP - Ollama error", st, "", r.Error)
           ELSE Err("HTTP", st, "", string(b))
    ELSE LET r == UnmarshalOpenRouter(b) IN
         IF r.ok /\ ~r.ErrorNil
           THEN Err("HTTP - API error", st, r.ErrorType, r.ErrorMessage)
           ELSE Err("HTTP", st, "", string(b))

\* sendRequest with the choices looked at before the error.
sendRequest_parse_choicesFirst(p, st, b) ==
  IF st # StatusOK THEN Ret("", httpError(p, st, b))
  ELSE IF p = ProviderOllama
    THEN LET r == UnmarshalOllama(b) IN
         IF ~r.ok THEN Ret("", Err("failed to parse Ollama response", 0, "", ""))
         ELSE IF r.Error # "" THEN Ret("", Err("Ollama error", 0, "", r.Error))
         ELSE Ret(r.Content, NoErr)
    ELSE LET r == UnmarshalOpenRouter(b) IN
         IF ~r.ok THEN Ret("", Err("failed to parse response", 0, "", ""))
         ELSE IF Len(r.Choices) > 0 THEN Ret(r.Choices[1].message, NoErr)
         ELSE IF ~r.ErrorNil
           THEN Ret("", Err("API error", 0, r.ErrorType, r.ErrorMessage))
         ELSE Ret("", Err("no response received", 0, "", ""))

\* sendRequest returning the content of the last choice.
sendRequest_parse_lastChoice(p, st, b) ==
  IF st # StatusOK THEN Ret("", httpError(p, st, b))
  ELSE IF p = ProviderOllama
    THEN LET r == UnmarshalOllama(b) IN
         IF ~r.ok THEN Ret("", Err("failed to parse Ollama response", 0, "", ""))
         ELSE IF r.Error # "" THEN Ret("", Err("Ollama error", 0, "", r.Error))
         ELSE Ret(r.Content, NoErr)
    ELSE LET r == UnmarshalOpenRouter(b) IN
         IF ~r.ok THEN Ret("", Err("failed to parse response", 0, "", ""))
         ELSE IF ~r.ErrorNil
           THEN Ret("", Err("API error", 0, r.ErrorType, r.ErrorMessage))
         ELSE IF Len(r.Choices) = 0
           THEN Ret("", Err("no response received", 0, "", ""))
         ELSE Ret(r.Choices[Len(r.Choices)].message, NoErr)

\* sendRequest without the test of the ollama envelope's error.
sendRequest_parse_ignoresOllamaError(p, st, b) ==
  IF st # StatusOK THEN Ret("", httpError(p, st, b))
  ELSE IF p = ProviderOllama
    THEN LET r == UnmarshalOllama(b) IN
         IF ~r.ok THEN Ret("", Err("failed to parse Ollama response", 0, "", ""))
         ELSE Ret(r.Content, NoErr)
    ELSE LET r == UnmarshalOpenRouter(b) IN
         IF ~r.ok THEN Ret("", Err("failed to parse response", 0, "", ""))
         ELSE IF ~r.ErrorNil
           THEN Ret("", Err("API error", 0, r.ErrorType, r.ErrorMessage))
         ELSE IF Len(r.Choices) = 0
           THEN Ret("", Err("no response received", 0, "", ""))
         ELSE Ret(r.Choices[1].message, NoErr)

\* sendRequest after the body is read: the text of the reply, or an error.
sendRequest_parse(p, st, b) ==
  IF st # StatusOK THEN Ret("", httpError(p, st, b))
  ELSE IF p = ProviderOllama
    THEN LET r == UnmarshalOllama(b) IN
         IF ~r.ok THEN Ret("", Err("failed to parse Ollama response", 0, "", ""))
         ELSE IF r.Error # "" THEN Ret("", Err("Ollama error", 0, "", r.Error))
         ELSE Ret(r.Content, NoErr)
    ELSE LET r == UnmarshalOpenRouter(b) IN
         IF ~r.ok THEN Ret("", Err("failed to parse response", 0, "", ""))
         ELSE IF ~r.ErrorNil
           THEN Ret("", Err("API error", 0, r.ErrorType, r.ErrorMessage))
         ELSE IF Len(r.Choices) = 0
           THEN Ret("", Err("no response received", 0, "", ""))
         ELSE Ret(r.Choices[1].message, NoErr)

\* sendRequest builds the request and calls client.Do: it fails, or a
\* response with status st arrives.
sendRequest_Do(cause, st) ==
  /\ pc = "send"
  /\ ~stream
  /\ \E o \in MarshalOrders(program, provider, FALSE) :
       request' = NewRequest(
         IF program = "cmd" THEN openRouterURL
           ELSE getAPIURL(provider, ollamaURL(environ), lmStudioURL(environ)),
         Headers(program, provider, apiKey), o,
         Marshal(program, provider, model, input, FALSE))
  /\ posts' = posts + 1
  /\ log' = Logged(verbose,
       requestLog(FALSE, request'.url, request')
       \o (IF cause = "nil" THEN responseLog(FALSE, st) ELSE <<>>))
  /\ IF cause # "nil"
       THEN /\ Return(Ret("", DoError(cause)))
            /\ UNCHANGED status
       ELSE /\ status' = st
            /\ pc' = "body"
            /\ UNCHANGED ret
  /\ ctxErr' = Expire(cause)
  /\ UNCHANGED <<program, provider, apiKey, stream, environ, model, verbose, env, input, body, consumed,
                 scanErr, chunkCount, out, fatal, exitCode>>

\* sendRequest of the cmd client after the body is read: any status other
\* than 200 is reported with the body, undecoded.
OpenRouterClient_sendRequest_parse(st, b) ==
  IF st # StatusOK THEN Ret("", Err("HTTP", st, "", string(b)))
  ELSE LET r == UnmarshalOpenRouter(b) IN
       IF ~r.ok THEN Ret("", Err("failed to parse response", 0, "", ""))
       ELSE IF ~r.ErrorNil
         THEN Ret("", Err("API error", 0, r.ErrorType, r.ErrorMessage))
       ELSE IF Len(r.Choices) = 0
         THEN Ret("", Err("no response received", 0, "", ""))
       ELSE Ret(r.Choices[1].message, NoErr)

\* What sendRequest logs of the body b it read: its size, and how the
\* decoding of a reply with status 200 went.
bodyLog(p, st, b) ==
  <<Log("Response body size: %d bytes", {"len(body)"})>>
  \o (IF st # StatusOK THEN <<>>
        ELSE IF p = ProviderOllama
          THEN LET r == UnmarshalOllama(b) IN
               IF ~r.ok
                 THEN <<Log("Failed to parse Ollama JSON response: %v", {}),
                        Log("Response body (first 500 chars): %s", {string(b)})>>
               ELSE IF r.Error # "" THEN <<>>
               ELSE <<Log("Successfully received Ollama response", {})>>
          ELSE LET r == UnmarshalOpenRouter(b) IN
               IF ~r.ok
                 THEN <<Log("Failed to parse JSON response: %v", {}),
                        Log("Response body (first 500 chars): %s", {string(b)})>>
               ELSE IF ~r.ErrorNil \/ Len(r.Choices) = 0 THEN <<>>
               ELSE <<Log("Successfully received response with %d choice(s)",
                          {ToString(Len(r.Choices))})>>)

\* sendRequest reads the whole body (io.ReadAll) and interprets it.  A
\* failed read, the deadline passing during it included, is returned as a
\* read failure.
sendRequest_ReadAll(cause, b) ==
  /\ pc = "body"
  /\ IF cause # "nil"
       THEN /\ Return(Ret("", Err("failed to read response", 0, "", cause)))
            /\ UNCHANGED body
       ELSE /\ body' = b
            /\ Return(IF program = "cmd"
                        THEN OpenRouterClient_sendRequest_parse(status, b)
                        ELSE sendRequest_parse(provider, status, b))
  /\ ctxErr' = Expire(cause)
  /\ log' = Logged(verbose,
       IF cause # "nil" THEN <<>> ELSE bodyLog(provider, status, b))
  /\ UNCHANGED <<program, provider, apiKey, stream, environ, model, verbose, env, input, request, posts,
                 status, consumed, scanErr, chunkCount, out, fatal, exitCode>>

\* sendStreamingRequest reading the stream whatever the status is.
sendStreamingRequest_Do_anyStatus(cause, st) ==
  /\ pc = "send"
  /\ stream
  /\ \E o \in MarshalOrders(program, provider, TRUE) :
       request' = NewRequest(
         getAPIURL(provider, ollamaURL(environ), lmStudioURL(environ)),
         Headers(program, provider, apiKey), o,
         Marshal(program, provider, model, input, TRUE))
  /\ posts' = posts + 1
  /\ log' = Logged(verbose,
       requestLog(TRUE, request'.url, request')
       \o (IF cause = "nil" THEN responseLog(TRUE, st) ELSE <<>>))
  /\ IF cause # "nil"
       THEN /\ Return(Ret("", DoError(cause)))
            /\ UNCHANGED status
       ELSE /\ status' = st
            /\ pc' = "scan"
            /\ UNCHANGED ret
  /\ ctxErr' = Expire(cause)
  /\ UNCHANGED <<program, provider, apiKey, stream, environ, model, verbose,
                 env, input, body, consumed, scanErr, chunkCount, out, fatal,
                 exitCode>>

\* -------------------------------------------------- sendStreamingRequest
\* sendStreamingRequest builds the request and calls client.Do.
sendStreamingRequest_Do(cause, st) ==
  /\ pc = "send"
  /\ stream
  /\ \E o \in MarshalOrders(program, provider, TRUE) :
       request' = NewRequest(
         IF program = "cmd" THEN openRouterURL
           ELSE getAPIURL(provider, ollamaURL(environ), lmStudioURL(environ)),
         Headers(program, provider, apiKey), o,
         Marshal(program, provider, model, input, TRUE))
  /\ posts' = posts + 1
  /\ log' = Logged(verbose,
       requestLog(TRUE, request'.url, request')
       \o (IF cause = "nil" THEN responseLog(TRUE, st) ELSE <<>>))
  /\ IF cause # "nil"
       THEN /\ Return(Ret("", DoError(cause)))
            /\ UNCHANGED status
       ELSE /\ status' = st
            /\ pc' = IF st # StatusOK THEN "errbody" ELSE "scan"
            /\ UNCHANGED ret
  /\ ctxErr' = Expire(cause)
  /\ UNCHANGED <<program, provider, apiKey, stream, environ, model, verbose, env, input, body, consumed,
                 scanErr, chunkCount, out, fatal, exitCode>>

\* Status other than 200: the body is read, a read error ignored, and the
\* stream is not decoded.
sendStreamingRequest_ErrorBody(b) ==
  /\ pc = "errbody"
  /\ body' = b
  /\ Return(Ret("", httpError(provider, status, b)))
  /\ UNCHANGED <<program, provider, apiKey, stream, environ, model, verbose, log, env, input, request, posts,
                 status, ctxErr, consumed, scanErr, chunkCount, out, fatal,
                 exitCode>>

\* What one pass of a streaming loop decides for the line it was given:
\* the chunk to print ("" for none) and how the loop goes on.
Step(c, e, k) == [emit |-> e, ctl |-> c, err |-> k]

\* The chunk text of a choice with message taken before delta.
choiceContent_messageFirst(choice) ==
  IF choice.message # "" THEN choice.message
  ELSE IF choice.delta # "" THEN choice.delta
  ELSE ""

\* The chunk text of a choice: delta, else message.
choiceContent(choice) ==
  IF choice.delta # "" THEN choice.delta
  ELSE IF choice.message # "" THEN choice.message
  ELSE ""

\* The SSE loop with the content of a finishing frame dropped.
sseLine_dropsLast(l) ==
  IF (l.prefix = "" /\ l.payload.raw = "") \/ l.prefix # DataPrefix
    THEN Step("continue", "", NoErr)
  ELSE IF l.payload.raw = DoneMarker THEN Step("break", "", NoErr)
  ELSE LET chunk == UnmarshalOpenRouter(l.payload) IN
    IF ~chunk.ok THEN Step("continue", "", NoErr)
    ELSE IF ~chunk.ErrorNil
      THEN Step("return", "",
                Err("API error in stream", 0, chunk.ErrorType, chunk.ErrorMessage))
    ELSE IF Len(chunk.Choices) > 0
      THEN LET choice == chunk.Choices[1] IN
           IF choice.finish_reason # ""
             THEN Step("break", "", NoErr)
             ELSE Step("continue", choiceContent(choice), NoErr)
    ELSE Step("continue", "", NoErr)

\* The SSE loop without the check of the chunk's error.
sseLine_ignoresError(l) ==
  IF (l.prefix = "" /\ l.payload.raw = "") \/ l.prefix # DataPrefix
    THEN Step("continue", "", NoErr)
  ELSE IF l.payload.raw = DoneMarker THEN Step("break", "", NoErr)
  ELSE LET chunk == UnmarshalOpenRouter(l.payload) IN
    IF ~chunk.ok THEN Step("continue", "", NoErr)
    ELSE IF Len(chunk.Choices) > 0
      THEN LET choice == chunk.Choices[1] IN
           Step(IF choice.finish_reason # "" THEN "break" ELSE "continue",
                choiceContent(choice), NoErr)
    ELSE Step("continue", "", NoErr)

\* The SSE loop with a decode failure returned as an error.
sseLine_strict(l) ==
  IF (l.prefix = "" /\ l.payload.raw = "") \/ l.prefix # DataPrefix
    THEN Step("continue", "", NoErr)
  ELSE IF l.payload.raw = DoneMarker THEN Step("break", "", NoErr)
  ELSE LET chunk == UnmarshalOpenRouter(l.payload) IN
    IF ~chunk.ok THEN Step("return", "", Err("failed to parse response", 0, "", ""))
    ELSE IF ~chunk.ErrorNil
      THEN Step("return", "",
                Err("API error in stream", 0, chunk.ErrorType, chunk.ErrorMessage))
    ELSE IF Len(chunk.Choices) > 0
      THEN LET choice == chunk.Choices[1] IN
           Step(IF choice.finish_reason # "" THEN "break" ELSE "continue",
                choiceContent(choice), NoErr)
    ELSE Step("continue", "", NoErr)

\* One pass of the SSE loop (openrouter, lmstudio) over line l.
sseLine(l) ==
  IF (l.prefix = "" /\ l.payload.raw = "") \/ l.prefix # DataPrefix
    THEN Step("continue", "", NoErr)
  ELSE IF l.payload.raw = DoneMarker THEN Step("break", "", NoErr)
  ELSE LET chunk == UnmarshalOpenRouter(l.payload) IN
    IF ~chunk.ok THEN Step("continue", "", NoErr)
    ELSE IF ~chunk.ErrorNil
      THEN Step("return", "",
                Err("API error in stream", 0, chunk.ErrorType, chunk.ErrorMessage))
    ELSE IF Len(chunk.Choices) > 0
      THEN LET choice == chunk.Choices[1] IN
           Step(IF choice.finish_reason # "" THEN "break" ELSE "continue",
                choiceContent(choice), NoErr)
    ELSE Step("continue", "", NoErr)

\* One pass of the ollama loop over line l; the whole line is the JSON text.
ollamaLine(l) ==
  IF l.prefix = "" /\ l.payload.raw = "" THEN Step("continue", "", NoErr)
  ELSE LET chunk == UnmarshalOllama(l.payload) IN
    IF l.prefix # "" \/ ~chunk.ok THEN Step("continue", "", NoErr)
    ELSE IF chunk.Error # ""
      THEN Step("return", "", Err("Ollama error in stream", 0, "", chunk.Error))
    ELSE Step(IF chunk.Done THEN "break" ELSE "continue", chunk.Content, NoErr)

\* fmt.Print of a chunk: nothing is written for an empty one.
emit(o, text) == IF text # "" THEN Append(o, text) ELSE o

\* The end of the loop with the newline written before scanner.Err() is
\* looked at.
streamEnd_newlineFirst(p, e, o) ==
  IF e \notin {"nil", "EOF"}
    THEN /\ Return(Ret("", Err(IF p = ProviderOllama
                                 THEN "failed to read Ollama stream"
                                 ELSE "failed to read stream", 0, "", e)))
         /\ out' = Append(o, Newline)
    ELSE /\ Return(Ret("", NoErr))
         /\ out' = Append(o, Newline)

\* The end of the loop with the output taken back on a read error.
streamEnd_rollback(p, e, o) ==
  IF e \notin {"nil", "EOF"}
    THEN /\ Return(Ret("", Err(IF p = ProviderOllama
                                 THEN "failed to read Ollama stream"
                                 ELSE "failed to read stream", 0, "", e)))
         /\ out' = <<>>
    ELSE /\ Return(Ret("", NoErr))
         /\ out' = Append(o, Newline)

\* The end of the loop with io.EOF reported as a read error.
streamEnd_eofIsError(p, e, o) ==
  IF e # "nil"
    THEN /\ Return(Ret("", Err(IF p = ProviderOllama
                                 THEN "failed to read Ollama stream"
                                 ELSE "failed to read stream", 0, "", e)))
         /\ out' = o
    ELSE /\ Return(Ret("", NoErr))
         /\ out' = Append(o, Newline)

\* The end of the loop without the check of scanner.Err().
streamEnd_ignoresReadError(p, e, o) ==
  /\ Return(Ret("", NoErr))
  /\ out' = Append(o, Newline)

\* After the loop, with o written so far: scanner.Err() decides between
\* the read error and the final newline with a nil return.  io.EOF is no
\* error to Err().
streamEnd(p, e, o) ==
  IF e \notin {"nil", "EOF"}
    THEN /\ Return(Ret("", Err(IF p = ProviderOllama
                                 THEN "failed to read Ollama stream"
                                 ELSE "failed to read stream", 0, "", e)))
         /\ out' = o
    ELSE /\ Return(Ret("", NoErr))
         /\ out' = Append(o, Newline)

\* What a streaming loop logs on line l, for which it decided s.
lineLog(p, l, s) ==
  IF p = ProviderOllama
    THEN IF l.prefix = "" /\ l.payload.raw = "" THEN <<>>
         ELSE <<Log("Ollama stream line: %s", {ToString(l)})>>
              \o (IF l.prefix # "" \/ ~UnmarshalOllama(l.payload).ok
                    THEN <<Log("Failed to parse Ollama chunk: %v", {}),
                           Log("Chunk data: %s", {ToString(l)})>>
                    ELSE <<>>)
              \o (IF s.ctl = "break"
                    THEN <<Log("Ollama stream finished", {})>> ELSE <<>>)
    ELSE <<Log("SSE line: %s", {ToString(l)})>>
         \o (IF l.prefix # DataPrefix THEN <<>>
               ELSE IF l.payload.raw = DoneMarker
                 THEN <<Log("Received [DONE] marker, stream complete", {})>>
               ELSE IF ~UnmarshalOpenRouter(l.payload).ok
                 THEN <<Log("Failed to parse SSE chunk: %v", {}),
                        Log("Chunk data: %s", {ToString(l.payload)})>>
               ELSE IF s.ctl = "break"
                 THEN <<Log("Stream finished with reason: %s",
                            {UnmarshalOpenRouter(l.payload).Choices[1].finish_reason})>>
               ELSE <<>>)

\* What is logged after a streaming loop that scanner.Err() e ended with n
\* chunks printed: nothing when the read error is returned.
completeLog(p, e, n) ==
  IF e \notin {"nil", "EOF"} THEN <<>>
  ELSE <<Log(IF p = ProviderOllama
               THEN "Ollama stream complete. Received %d chunks, total length: %d characters"
               ELSE "Stream complete. Received %d chunks, total length: %d characters",
             {ToString(n)})>>

\* scanner.Scan() returned true with line l, and the loop body ran on it.
\* e is the scanner's error after the call: the scanner reads only when it
\* holds no complete line, so a read may fail (or end) while it holds the
\* unterminated last line, which it hands out before Scan reports false.
sendStreamingRequest_Scan(l, e) ==
  /\ pc = "scan"
  /\ Len(consumed) < MaxLines
  /\ l \in LinesOf(provider)
  /\ scanErr = "nil"
  /\ consumed' = Append(consumed, l)
  /\ scanErr' = e
  /\ LET s == IF provider = ProviderOllama THEN ollamaLine(l) ELSE sseLine(l) IN
       /\ chunkCount' = IF s.emit # "" THEN chunkCount + 1 ELSE chunkCount
       /\ IF s.ctl = "return"
            THEN /\ Return(Ret("", s.err))
                 /\ out' = out
            ELSE IF s.ctl = "break"
              THEN streamEnd(provider, e, emit(out, s.emit))
              ELSE /\ out' = emit(out, s.emit)
                   /\ UNCHANGED <<pc, ret>>
  /\ log' = Logged(verbose,
       LET s == IF provider = ProviderOllama THEN ollamaLine(l) ELSE sseLine(l) IN
       lineLog(provider, l, s)
       \o (IF s.ctl = "break"
             THEN completeLog(provider, e,
                              IF s.emit # "" THEN chunkCount + 1 ELSE chunkCount)
             ELSE <<>>))
  /\ ctxErr' = Expire(e)
  /\ UNCHANGED <<program, provider, apiKey, stream, environ, model, verbose, env, input, request, posts,
                 status, body, fatal, exitCode>>

\* scanner.Scan() returned false: the body ended (io.EOF) or a read failed.
sendStreamingRequest_ScanEnd(e) ==
  /\ pc = "scan"
  /\ e \in ReadErrors
  /\ scanErr # "nil" => e = scanErr
  /\ scanErr' = e
  /\ streamEnd(provider, e, out)
  /\ log' = Logged(verbose, completeLog(provider, e, chunkCount))
  /\ ctxErr' = Expire(e)
  /\ UNCHANGED <<program, provider, apiKey, stream, environ, model, verbose, env, input, request, posts,
                 status, body, consumed, chunkCount, fatal, exitCode>>

\* main sending the request again after a failure.
main_return_retries ==
  /\ pc = "ret"
  /\ IF ret.err # NoErr
       THEN /\ pc' = IF posts < 2 THEN "send" ELSE "exit"
            /\ out' = out
            /\ UNCHANGED <<fatal, exitCode>>
       ELSE /\ out' = IF stream THEN out ELSE out \o <<ret.text, Newline>>
            /\ exitCode' = 0
            /\ pc' = "exit"
            /\ UNCHANGED fatal
  /\ UNCHANGED <<program, provider, apiKey, stream, environ, model, verbose, log,
                 env, input, request, posts, status, body, ctxErr, consumed,
                 scanErr, chunkCount, ret>>

\* main losing the error of the streaming branch.
main_return_dropsStreamError ==
  /\ pc = "ret"
  /\ IF ret.err # NoErr /\ ~stream
       THEN /\ Fatalf(Err("Request failed", 0, "", ret.err.kind))
            /\ out' = out
       ELSE /\ out' = IF stream THEN out ELSE out \o <<ret.text, Newline>>
            /\ exitCode' = 0
            /\ pc' = "exit"
            /\ UNCHANGED fatal
  /\ UNCHANGED <<program, provider, apiKey, stream, environ, model, verbose, log, env, input, request, posts,
                 status, body, ctxErr, consumed, scanErr, chunkCount, ret>>

\* main printing the returned text in streaming mode as well.
main_return_printsAlways ==
  /\ pc = "ret"
  /\ IF ret.err # NoErr
       THEN /\ Fatalf(Err("Request failed", 0, "", ret.err.kind))
            /\ out' = out
       ELSE /\ out' = out \o <<ret.text, Newline>>
            /\ exitCode' = 0
            /\ pc' = "exit"
            /\ UNCHANGED fatal
  /\ UNCHANGED <<program, provider, apiKey, stream, environ, model, verbose, log, env, input, request, posts,
                 status, body, ctxErr, consumed, scanErr, chunkCount, ret>>

\* main after the send function returned: an error is fatal, the text of a
\* non-streaming reply is printed with a newline.
main_return ==
  /\ pc = "ret"
  /\ IF ret.err # NoErr
       THEN /\ Fatalf(Err("Request failed", 0, "", ret.err.kind))
            /\ out' = out
       ELSE /\ out' = IF stream THEN out ELSE out \o <<ret.text, Newline>>
            /\ exitCode' = 0
            /\ pc' = "exit"
            /\ UNCHANGED fatal
  /\ UNCHANGED <<program, provider, apiKey, stream, environ, model, verbose, log, env, input, request, posts,
                 status, body, ctxErr, consumed, scanErr, chunkCount, ret>>

Next ==
  \/ \E e \in Environs : main_config(e)
  \/ \E d \in StdinTexts : prepareInput(d, <<>>)
  \/ \E k \in ApiKeyEnv, d \in StdinTexts : OpenRouterClient_ProcessInput(k, d)
  \/ \E c \in {"nil", "deadline", "connect"}, st \in Statuses : sendRequest_Do(c, st)
  \/ \E c \in {"nil", "read", "deadline"}, b \in Bodies : sendRequest_ReadAll(c, b)
  \/ \E c \in {"nil", "deadline", "connect"}, st \in Statuses :
       sendStreamingRequest_Do(c, st)
  \/ \E b \in Bodies : sendStreamingRequest_ErrorBody(b)
  \/ \E l \in SSELines \cup OllamaLines, e \in {"nil"} \cup ReadErrors :
       sendStreamingRequest_Scan(l, e)
  \/ \E e \in ReadErrors : sendStreamingRequest_ScanEnd(e)
  \/ main_return

Spec == Init /\ [][Next]_vars

\* The invocation up to client.Do, over every text of standard input and
\* every pre-prompt: what is read, and the request that is built from it.
NextBuild ==
  \/ \E e \in BuildEnvirons : main_config(e)
  \/ \E d \in StdinBytes, pp \in PrePromptEnv : prepareInput(d, pp)
  \/ \E k \in ApiKeyEnv, d \in StdinBytes : OpenRouterClient_ProcessInput(k, d)
  \/ \E c \in {"nil", "deadline", "connect"}, st \in Statuses : sendRequest_Do(c, st)
  \/ \E c \in {"nil", "deadline", "connect"}, st \in Statuses :
       sendStreamingRequest_Do(c, st)

SpecBuild == Init /\ [][NextBuild]_vars

\* The invocation up to client.Do, over the spellings of the environment.
NextEnv ==
  \/ \E e \in SwitchEnvirons : main_config(e)
  \/ \E d \in StdinTexts : prepareInput(d, <<>>)
  \/ \E c \in {"nil", "deadline", "connect"}, st \in Statuses : sendRequest_Do(c, st)
  \/ \E c \in {"nil", "deadline", "connect"}, st \in Statuses :
       sendStreamingRequest_Do(c, st)

SpecEnv == Init /\ [][NextEnv]_vars

\* The whole invocation with LLM_VERBOSE set.
NextVerbose ==
  \/ \E e \in VerboseEnvirons : main_config(e)
  \/ \E d \in StdinTexts : prepareInput(d, <<>>)
  \/ \E c \in {"nil", "deadline", "connect"}, st \in Statuses : sendRequest_Do(c, st)
  \/ \E c \in {"nil", "read", "deadline"}, b \in Bodies : sendRequest_ReadAll(c, b)
  \/ \E c \in {"nil", "deadline", "connect"}, st \in Statuses :
       sendStreamingRequest_Do(c, st)
  \/ \E b \in Bodies : sendStreamingRequest_ErrorBody(b)
  \/ \E l \in SSELines \cup OllamaLines, e \in {"nil"} \cup ReadErrors :
       sendStreamingRequest_Scan(l, e)
  \/ \E e \in ReadErrors : sendStreamingRequest_ScanEnd(e)
  \/ main_return

SpecVerbose == Init /\ [][NextVerbose]_vars

\* ================================================================ claims
\* Vocabulary of the specification's streaming section, stated on lines.

IsSSE == provider \in {ProviderOpenRouter, ProviderLMStudio}
IsLocalA == provider = ProviderOllama

\* The consumer's state: Reading inside the loop, Done after a nil return,
\* Aborted after an error return; Idle when no stream was opened.
StreamState ==
  IF pc = "scan" THEN "Reading"
  ELSE IF stream /\ status = StatusOK /\ pc \in {"ret", "exit"}
    THEN IF ret.err = NoErr THEN "Done" ELSE "Aborted"
  ELSE "Idle"

\* The chunks written so far: standard output without the closing newline.
Chunks ==
  IF out # <<>> /\ out[Len(out)] = Newline THEN SubSeq(out, 1, Len(out) - 1) ELSE out

\* The step consumed a line; LastLine is that line in the new state.
Consumes == Len(consumed') = Len(consumed) + 1
LastLine == consumed[Len(consumed)]
Written == SubSeq(out', Len(out) + 1, Len(out'))

\* SSE: a `data: ` frame, the end marker, a frame that decodes as a chunk.
DataFrame(l) == l.prefix = DataPrefix
DoneFrame(l) == DataFrame(l) /\ l.payload.raw = DoneMarker
WellFormedSSE(l) ==
  DataFrame(l) /\ l.payload.raw = "json" /\ l.payload.error.kind # "string"
ErrorSSE(l) == WellFormedSSE(l) /\ l.payload.error.kind = "object"
FirstChoice(l) == l.payload.choices[1]
HasChoices(l) == WellFormedSSE(l) /\ ~ErrorSSE(l) /\ Len(l.payload.choices) > 0
FinishSSE(l) == HasChoices(l) /\ FirstChoice(l).finish_reason # ""
\* The content an SSE frame contributes: delta.content, else message.content,
\* of the first choice; nothing for an error frame.
ContentSSE(l) ==
  IF ~HasChoices(l) THEN ""
  ELSE IF FirstChoice(l).delta # "" THEN FirstChoice(l).delta
  ELSE FirstChoice(l).message
EndsSSE(l) == DoneFrame(l) \/ ErrorSSE(l) \/ FinishSSE(l)

\* The non-empty contents of the frames of ls, in order, up to and including
\* the first frame that ends the stream.
RECURSIVE ExpectedSSE(_)
ExpectedSSE(ls) ==
  IF ls = <<>> THEN <<>>
  ELSE LET c == ContentSSE(Head(ls)) IN
       (IF c = "" THEN <<>> ELSE <<c>>)
       \o (IF EndsSSE(Head(ls)) THEN <<>> ELSE ExpectedSSE(Tail(ls)))



\* C1: for an SSE provider the chunks written are, at every moment, exactly
\* the non-empty contents of the well-formed data frames read so far, in
\* arrival order (He, llo, [DONE] gives "He","llo" and then Done).
C1_SseOutputIsConcatenation ==
  (stream /\ IsSSE) => Chunks = ExpectedSSE(consumed)

HeFrame == Line(DataPrefix, Json(<<Choice("He", "", "")>>, ErrAbsent, "", FALSE))
LloFrame == Line(DataPrefix, Json(<<Choice("llo", "", "")>>, ErrAbsent, "", FALSE))
DoneLine == Line(DataPrefix, Text(DoneMarker))
BadFrame == Line(DataPrefix, Text("{not json}"))

C1_Witness ==
  /\ IsSSE
  /\ consumed = <<HeFrame, LloFrame, DoneLine>>
  /\ out = <<"He", "llo", Newline>>
  /\ StreamState = "Done"

\* Newline-delimited JSON: a line that decodes as an ollama chunk.
EmptyLine(l) == l.prefix = "" /\ l.payload.raw = ""
WellFormedNDJSON(l) ==
  l.prefix = "" /\ l.payload.raw = "json" /\ l.payload.error.kind # "object"
ErrorNDJSON(l) ==
  WellFormedNDJSON(l) /\ l.payload.error.kind = "string" /\ l.payload.error.message # ""
ContentNDJSON(l) ==
  IF WellFormedNDJSON(l) /\ ~ErrorNDJSON(l) THEN l.payload.message ELSE ""
EndsNDJSON(l) == ErrorNDJSON(l) \/ (WellFormedNDJSON(l) /\ l.payload.done)

RECURSIVE ExpectedNDJSON(_)
ExpectedNDJSON(ls) ==
  IF ls = <<>> THEN <<>>
  ELSE LET c == ContentNDJSON(Head(ls)) IN
       (IF c = "" THEN <<>> ELSE <<c>>)
       \o (IF EndsNDJSON(Head(ls)) THEN <<>> ELSE ExpectedNDJSON(Tail(ls)))

\* A line whose payload fails JSON decoding, in the provider's framing.
Malformed(l) ==
  IF IsLocalA THEN ~EmptyLine(l) /\ ~WellFormedNDJSON(l)
  ELSE DataFrame(l) /\ ~DoneFrame(l) /\ ~WellFormedSSE(l)

\* C2: in both framings a line whose payload fails JSON decoding is skipped:
\* the consumer stays in Reading, writes nothing, reports no error, and the
\* chunks of the well-formed frames around it are still written in order.
C2_MalformedLineSkipped ==
  /\ [][(Consumes /\ Malformed(LastLine'))
          => /\ pc' = "scan"
             /\ out' = out
             /\ chunkCount' = chunkCount
             /\ ret' = ret
             /\ fatal' = fatal]_vars
  /\ [](stream => Chunks = IF IsLocalA THEN ExpectedNDJSON(consumed)
                                       ELSE ExpectedSSE(consumed))

C2_Witness ==
  /\ IsSSE
  /\ consumed = <<HeFrame, BadFrame, LloFrame>>
  /\ out = <<"He", "llo">>
  /\ StreamState = "Reading"

\* A line that ends the stream in the provider's framing: with success, or
\* with an in-band error.
SignalsEnd(l) ==
  IF IsLocalA THEN WellFormedNDJSON(l) /\ ~ErrorNDJSON(l) /\ l.payload.done
  ELSE DoneFrame(l) \/ FinishSSE(l)
CarriesError(l) == IF IsLocalA THEN ErrorNDJSON(l) ELSE ErrorSSE(l)

\* C3: the consumer starts in Reading with nothing read or written; Done and
\* Aborted are entered only from Reading, by an end signal or the end of the
\* input (Done), by an in-band error or a read error (Aborted); and once in
\* Done or Aborted no line is consumed, nothing is written and the state and
\* the result never change again.
C3_TerminalStatesAbsorbing ==
  [][/\ (StreamState = "Idle" => StreamState' \in {"Idle", "Reading"})
     /\ (StreamState = "Idle" /\ StreamState' = "Reading"
           => consumed' = <<>> /\ out' = <<>> /\ ret' = NoRet)
     /\ (StreamState = "Reading" /\ StreamState' = "Done"
           => \/ Consumes /\ SignalsEnd(LastLine')
              \/ ~Consumes /\ scanErr' = "EOF")
     /\ (StreamState = "Reading" /\ StreamState' = "Aborted"
           => \/ Consumes /\ CarriesError(LastLine')
              \/ scanErr' \notin {"nil", "EOF"})
     /\ (StreamState \in {"Done", "Aborted"}
           => /\ StreamState' = StreamState
              /\ consumed' = consumed
              /\ scanErr' = scanErr
              /\ chunkCount' = chunkCount
              /\ out' = out
              /\ ret' = ret)]_vars

C3_Witness ==
  /\ StreamState = "Aborted"
  /\ pc = "exit"
  /\ Len(consumed) = 2
  /\ Len(out) = 1

\* C4: an invocation ends with exactly one outcome.  A send function returns
\* a text with a nil error or an error with no text; the process ends with
\* status 0 and nothing reported as fatal, or with status 1 and exactly one
\* fatal report; and it never stops before it has ended (some step is
\* possible until it exits).
C4_ExactlyOneOutcome ==
  /\ pc = "ret" => /\ ret # NoRet
                   /\ ret.err # NoErr => ret.text = ""
  /\ pc = "exit" => \/ exitCode = 0 /\ fatal = <<>> /\ ret.err = NoErr
                    \/ exitCode = 1 /\ Len(fatal) = 1
  /\ pc # "exit" => exitCode = -1 /\ fatal = <<>> /\ ENABLED Next
  /\ (pc = "exit" /\ exitCode = 0 /\ ~stream) => out = <<ret.text, Newline>>

C4_Witness ==
  /\ pc = "exit"
  /\ ~stream
  /\ provider = ProviderLMStudio
  /\ exitCode = 0
  /\ out = <<"hi", Newline>>

IsPrefix(a, b) == Len(a) <= Len(b) /\ SubSeq(b, 1, Len(a)) = a
ContentOf(l) == IF IsLocalA THEN ContentNDJSON(l) ELSE ContentSSE(l)

\* C5: streaming output is append-only and written at most once.  Every step
\* extends standard output; a step of the loop writes the content of the
\* line it consumed once (and nothing else but the closing newline), a step
\* that consumes no line writes no chunk (so a step that aborts the stream
\* keeps what was written), and the chunks written number chunkCount.
C5_OutputAppendOnly ==
  /\ [][/\ IsPrefix(out, out')
        /\ (stream /\ Consumes)
             => LET c == ContentOf(LastLine') IN
                Written \in {IF c = "" THEN <<>> ELSE <<c>>,
                             IF c = "" THEN <<Newline>> ELSE <<c, Newline>>}
        /\ (stream /\ ~Consumes) => Written \in {<<>>, <<Newline>>}]_vars
  /\ [](stream => Len(Chunks) = chunkCount)

C5_Witness ==
  /\ StreamState = "Aborted"
  /\ ret.err.kind = "failed to read stream"
  /\ consumed = <<HeFrame, LloFrame>>
  /\ out = <<"He", "llo">>

InBandKinds == {"API error in stream", "Ollama error in stream"}

\* C6: a decoded frame that carries an error (a non-null error object for
\* SSE, a non-empty error string for ollama) aborts the stream at once with
\* the API error of that frame: the step writes nothing, whatever content,
\* finish_reason or done the frame carries, and nothing is read or written
\* after it.
C6_InBandErrorAborts ==
  /\ [][/\ (Consumes /\ CarriesError(LastLine'))
             => /\ StreamState' = "Aborted"
                /\ ret'.err.kind = IF IsLocalA THEN "Ollama error in stream"
                                               ELSE "API error in stream"
                /\ ret'.err.msg = LastLine'.payload.error.message
                /\ out' = out
                /\ chunkCount' = chunkCount
        /\ ret.err.kind \in InBandKinds => out' = out /\ consumed' = consumed]_vars
  /\ [](ret.err.kind \in InBandKinds
          => StreamState = "Aborted" /\ CarriesError(LastLine) /\ Chunks = out)

ErrFrame ==
  Line(DataPrefix, Json(<<Choice("He", "", "stop")>>,
                        ErrObject("rate limited", "limit"), "", TRUE))

C6_Witness ==
  /\ IsSSE
  /\ consumed = <<HeFrame, ErrFrame>>
  /\ out = <<"He">>
  /\ ret.err = Err("API error in stream", 0, "limit", "rate limited")
  /\ pc = "exit"

\* The scanner holds a read error other than io.EOF.
ReadFailed == scanErr \notin {"nil", "EOF"}

\* C7: for an SSE provider a `data: [DONE]` frame moves the consumer to Done:
\* the frame writes no chunk, the result is success, and a line without the
\* literal prefix `data: ` is ignored and never ends the stream.
C7_DoneAlwaysSucceeds ==
  [][/\ (IsSSE /\ Consumes /\ DoneFrame(LastLine'))
          => /\ StreamState' = "Done"
             /\ ret'.err = NoErr
             /\ Written = <<Newline>>
             /\ chunkCount' = chunkCount
     /\ (IsSSE /\ Consumes /\ ~DataFrame(LastLine'))
          => pc' = "scan" /\ out' = out /\ ret' = ret]_vars

\* What the code does for C7: a `data: [DONE]` frame ends the loop without a
\* chunk, and no line after it is read or written; the result is success
\* (closing newline) only if the scanner holds no read error when it hands
\* the line out, otherwise the read error is returned and no newline written.
\* A line without the literal prefix `data: ` is ignored.
DoneEndsLoop ==
  [][/\ (IsSSE /\ Consumes /\ DoneFrame(LastLine'))
          => /\ pc' = "ret"
             /\ chunkCount' = chunkCount
             /\ IF ReadFailed'
                  THEN /\ StreamState' = "Aborted"
                       /\ ret'.err = Err("failed to read stream", 0, "", scanErr')
                       /\ out' = out
                  ELSE /\ StreamState' = "Done"
                       /\ ret'.err = NoErr
                       /\ Written = <<Newline>>
     /\ (IsSSE /\ Consumes /\ ~DataFrame(LastLine'))
          => pc' = "scan" /\ out' = out /\ ret' = ret /\ chunkCount' = chunkCount
     /\ (stream /\ pc \in {"ret", "exit"}) => consumed' = consumed /\ out' = out]_vars

\* The [DONE] frame was read and the invocation failed with a read error.
C7_Diverges ==
  /\ IsSSE
  /\ consumed = <<HeFrame, DoneLine>>
  /\ ReadFailed
  /\ out = <<"He">>
  /\ ret.err.kind = "failed to read stream"
  /\ exitCode = 1

\* The chunks the step wrote.
WrittenChunks == SubSeq(Chunks', Len(Chunks) + 1, Len(Chunks'))

\* C8: for an SSE frame with a non-empty choices list (decoded, without an
\* error) the step writes delta.content of the first choice when that is
\* non-empty, message.content of the first choice when only that is
\* non-empty, and nothing when both are empty: never both.
C8_DeltaPreferredOverMessage ==
  [][(IsSSE /\ Consumes /\ HasChoices(LastLine'))
       => LET choice == FirstChoice(LastLine') IN
          /\ choice.delta # "" => WrittenChunks = <<choice.delta>>
          /\ (choice.delta = "" /\ choice.message # "")
               => WrittenChunks = <<choice.message>>
          /\ (choice.delta = "" /\ choice.message = "") => WrittenChunks = <<>>]_vars

BothFrame == Line(DataPrefix, Json(<<Choice("He", "Full", "")>>, ErrAbsent, "", FALSE))
MessageFrame == Line(DataPrefix, Json(<<Choice("", "Full", "")>>, ErrNull, "", FALSE))
EmptyFrame == Line(DataPrefix, Json(<<Choice("", "", "")>>, ErrAbsent, "", FALSE))

C8_Witness ==
  /\ IsSSE
  /\ consumed = <<BothFrame, EmptyFrame, MessageFrame>>
  /\ out = <<"He", "Full">>
  /\ chunkCount = 2

\* C9: an SSE frame with a non-empty finish_reason has its own content (if
\* any) written first and then ends the stream successfully (Done); content
\* of later frames is never written.
C9_FinishAlwaysSucceeds ==
  [][/\ (IsSSE /\ Consumes /\ FinishSSE(LastLine'))
          => /\ WrittenChunks = ExpectedSSE(<<LastLine'>>)
             /\ StreamState' = "Done"
             /\ ret'.err = NoErr
     /\ (stream /\ pc \in {"ret", "exit"}) => consumed' = consumed /\ out' = out]_vars

\* What the code does for C9: the frame's content is written first and the
\* loop ends; the result is success (closing newline after the content) only
\* if the scanner holds no read error when it hands the line out, otherwise
\* the read error is returned after the content was written.
FinishEndsLoop ==
  [][/\ (IsSSE /\ Consumes /\ FinishSSE(LastLine'))
          => LET c == ContentSSE(LastLine')
                 w == IF c = "" THEN <<>> ELSE <<c>> IN
             /\ pc' = "ret"
             /\ IF ReadFailed'
                  THEN /\ StreamState' = "Aborted"
                       /\ ret'.err = Err("failed to read stream", 0, "", scanErr')
                       /\ Written = w
                  ELSE /\ StreamState' = "Done"
                       /\ ret'.err = NoErr
                       /\ Written = w \o <<Newline>>
     /\ (stream /\ pc \in {"ret", "exit"}) => consumed' = consumed /\ out' = out]_vars

FinishFrame == Line(DataPrefix, Json(<<Choice("!", "", "stop")>>, ErrAbsent, "", FALSE))

\* The finishing frame was read and written, and the invocation failed.
C9_Diverges ==
  /\ IsSSE
  /\ consumed = <<HeFrame, FinishFrame>>
  /\ ReadFailed
  /\ out = <<"He", "!">>
  /\ ret.err.kind = "failed to read stream"
  /\ exitCode = 1

\* C10: for ollama every non-empty line is decoded on its own; a non-empty
\* message.content is written as a chunk, and a line with done = true ends
\* the stream successfully after its content was written (Hi/done=false,
\* then ""/done=true, gives "Hi" and then Done).
C10_OllamaDoneAlwaysSucceeds ==
  /\ [][(IsLocalA /\ Consumes /\ WellFormedNDJSON(LastLine') /\ ~ErrorNDJSON(LastLine'))
          => /\ WrittenChunks = ExpectedNDJSON(<<LastLine'>>)
             /\ IF LastLine'.payload.done
                  THEN StreamState' = "Done" /\ ret'.err = NoErr
                  ELSE StreamState' = "Reading"]_vars
  /\ []((stream /\ IsLocalA) => Chunks = ExpectedNDJSON(consumed))

\* What the code does for C10: content is written, done = false keeps the
\* consumer Reading, and done = true ends the loop after the content: with
\* success (closing newline) only if the scanner holds no read error when it
\* hands the line out, otherwise with the read error.
OllamaLineHandled ==
  /\ [][(IsLocalA /\ Consumes /\ WellFormedNDJSON(LastLine') /\ ~ErrorNDJSON(LastLine'))
          => LET c == LastLine'.payload.message
                 w == IF c = "" THEN <<>> ELSE <<c>> IN
             IF ~LastLine'.payload.done
               THEN StreamState' = "Reading" /\ Written = w /\ ret' = ret
             ELSE IF ReadFailed'
               THEN /\ StreamState' = "Aborted"
                    /\ ret'.err = Err("failed to read Ollama stream", 0, "", scanErr')
                    /\ Written = w
               ELSE /\ StreamState' = "Done"
                    /\ ret'.err = NoErr
                    /\ Written = w \o <<Newline>>]_vars
  /\ []((stream /\ IsLocalA) => Chunks = ExpectedNDJSON(consumed))

HiLine == Line("", Json(<<>>, ErrAbsent, "Hi", FALSE))
DoneTrueLine == Line("", Json(<<>>, ErrAbsent, "", TRUE))

\* The done = true line was read and the invocation failed with a read error.
C10_Diverges ==
  /\ IsLocalA
  /\ consumed = <<HiLine, DoneTrueLine>>
  /\ ReadFailed
  /\ out = <<"Hi">>
  /\ ret.err.kind = "failed to read Ollama stream"
  /\ exitCode = 1


\* The chunks the specification expects for the lines ls of this provider.
Expected(ls) == IF IsLocalA THEN ExpectedNDJSON(ls) ELSE ExpectedSSE(ls)

\* No line of ls signals the end of the stream or carries an in-band error.
NoSignal(ls) ==
  \A i \in 1..Len(ls) : ~SignalsEnd(ls[i]) /\ ~CarriesError(ls[i])

\* C11: in streaming mode, for every provider, when the body ends (io.EOF)
\* before any line signalled the end or carried an error, the stream ends as
\* Done with a nil result, and standard output holds every chunk of the lines
\* read, in order, followed by the closing newline; the process exits with 0.
C11_EofEndsDone ==
  (stream /\ status = StatusOK /\ pc \in {"ret", "exit"}
      /\ scanErr = "EOF" /\ NoSignal(consumed))
    => /\ StreamState = "Done"
       /\ ret.err = NoErr
       /\ out = Expected(consumed) \o <<Newline>>
       /\ fatal = <<>>
       /\ pc = "exit" => exitCode = 0

C11_Witness ==
  /\ IsLocalA
  /\ consumed = <<HiLine, Line("", Text("{not json}"))>>
  /\ scanErr = "EOF"
  /\ out = <<"Hi", Newline>>
  /\ StreamState = "Done"
  /\ exitCode = 0


\* The error kinds of a failed read of the stream.
TransportKinds == {"failed to read stream", "failed to read Ollama stream"}

\* scanner.Scan() reported false: the loop ended without a further line.
FetchFailed == stream /\ pc = "scan" /\ pc' = "ret" /\ consumed' = consumed

\* C12: in streaming mode a read failure while fetching the next line aborts
\* the stream with the transport error of that failure (Aborted, an error
\* result, nothing written or taken back); a line that fails JSON decoding
\* never aborts; and a stream whose read failed is never reported as Done:
\* it ends Aborted, with the transport error or, when the line handed out
\* together with the failure carried an in-band error, with that error.
C12_ReadFailureAborts ==
  /\ [][(FetchFailed /\ ReadFailed')
          => /\ StreamState' = "Aborted"
             /\ ret'.err = Err(IF IsLocalA THEN "failed to read Ollama stream"
                                           ELSE "failed to read stream",
                               0, "", scanErr')
             /\ out' = out]_vars
  /\ [][(Consumes /\ Malformed(LastLine'))
          => pc' = "scan" /\ ret' = ret /\ out' = out]_vars
  /\ [](StreamState = "Done" => ~ReadFailed)
  /\ []((stream /\ status = StatusOK /\ pc \in {"ret", "exit"} /\ ReadFailed)
          => /\ StreamState = "Aborted"
             /\ \/ ret.err.kind \in TransportKinds
                \/ /\ consumed # <<>>
                   /\ CarriesError(LastLine)
                   /\ ret.err.kind \in InBandKinds)

\* A malformed line was skipped, then the read failed and the process exited
\* with the transport error, the chunk written before it still on the output.
C12_Witness ==
  /\ IsSSE
  /\ consumed = <<HeFrame, BadFrame>>
  /\ scanErr = "read"
  /\ ret.err = Err("failed to read stream", 0, "", "read")
  /\ out = <<"He">>
  /\ exitCode = 1


\* The deadline of the request's context has passed and the send function
\* has returned.
TimedOut == ctxErr = "DeadlineExceeded" /\ pc \in {"ret", "exit"}

\* C13: expiry of the overall timeout is always reported as the timeout
\* error, distinct from a transport error, wherever it strikes: in client.Do,
\* while the non-streaming body is read, or while a line of the stream is
\* read.
C13_TimeoutAlwaysDistinct ==
  TimedOut => ret.err = Err("request timed out", 0, "", "")

\* What the code does for C13: expiry is always an error, never a success;
\* it is the timeout error only when it strikes in client.Do.  While a body
\* is read it is returned as the read failure of that body, with the
\* deadline as its cause (or, in a stream, as the in-band error of the line
\* handed out together with it).
TimeoutReported ==
  TimedOut =>
    /\ ret.err # NoErr
    /\ IF status = 0 THEN ret.err = Err("request timed out", 0, "", "")
       ELSE IF ~stream THEN ret.err = Err("failed to read response", 0, "", "deadline")
       ELSE \/ /\ ret.err.kind \in TransportKinds
               /\ ret.err.msg = "deadline"
            \/ /\ consumed # <<>>
               /\ CarriesError(LastLine)
               /\ ret.err.kind \in InBandKinds

\* The deadline passed while the non-streaming body was read, and the
\* process exited with a read failure.
C13_Diverges ==
  /\ ~stream
  /\ status = StatusOK
  /\ ctxErr = "DeadlineExceeded"
  /\ ret.err = Err("failed to read response", 0, "", "deadline")
  /\ exitCode = 1


\* ------------------------------------------------ non-streaming responses
\* Vocabulary of the specification's parseComplete, stated on bodies.

\* The body decodes as the envelope of provider p: a JSON object whose
\* `error` is text for ollama and an object {message, type} for the others.
DecodesAs(p, b) ==
  /\ b.raw = "json"
  /\ b.error.kind # (IF p = ProviderOllama THEN "object" ELSE "string")

\* The envelope carries an error: a non-null `error` member.
ErrorPresent(p, b) == DecodesAs(p, b) /\ b.error.kind \notin {"absent", "null"}

\* The error message and the error type of the envelope.
ErrorMessage(b) == b.error.message
ErrorType(b) == b.error.type

\* The error values of the specification.
APIError(p, st, b) ==
  Err(IF st = StatusOK
        THEN (IF p = ProviderOllama THEN "Ollama error" ELSE "API error")
        ELSE (IF p = ProviderOllama THEN "HTTP - Ollama error" ELSE "HTTP - API error"),
      IF st = StatusOK THEN 0 ELSE st, ErrorType(b), ErrorMessage(b))
HTTPError(st, b) == Err("HTTP", st, "", string(b))
MalformedKinds == {"failed to parse response", "failed to parse Ollama response"}
EmptyResponseError == Err("no response received", 0, "", "")

\* A non-streaming call has read its body and returned.
Parsed ==
  /\ ~stream
  /\ pc \in {"ret", "exit"}
  /\ status # 0
  /\ ret.err.kind # "failed to read response"

\* C14: in non-streaming mode with a status other than 200 the result is
\* never a success: it is the APIError of the envelope exactly when the body
\* decodes as the provider's envelope with a non-empty error message, and
\* the HTTPError with the status and the body in every other case.
C14_Non200ByMessage ==
  (Parsed /\ status # StatusOK)
    => /\ ret.err # NoErr
       /\ ret.text = ""
       /\ IF ErrorPresent(provider, body) /\ ErrorMessage(body) # ""
            THEN ret.err = APIError(provider, status, body)
            ELSE ret.err = HTTPError(status, body)

\* What the code does for C14: never a success.  sendRequest of main.go
\* returns the APIError when the envelope decodes with an error present: a
\* non-empty text for ollama, a non-null object for the others, whose
\* message may be empty.  sendRequest of the cmd client decodes nothing and
\* always returns the HTTPError.
Non200Handled ==
  (Parsed /\ status # StatusOK)
    => /\ ret.err # NoErr
       /\ ret.text = ""
       /\ IF /\ program = "main"
             /\ ErrorPresent(provider, body)
             /\ (provider = ProviderOllama => ErrorMessage(body) # "")
            THEN ret.err = APIError(provider, status, body)
            ELSE ret.err = HTTPError(status, body)

EmptyMessageBody == Json(<<>>, ErrObject("", "auth"), "", FALSE)
BadKeyBody == Json(<<>>, ErrObject("bad key", "auth"), "", FALSE)

\* An error object with an empty message was returned as an APIError.
C14_Diverges ==
  /\ program = "main"
  /\ provider = ProviderLMStudio
  /\ status = 500
  /\ body = EmptyMessageBody
  /\ ret.err = Err("HTTP - API error", 500, "auth", "")
  /\ exitCode = 1


\* sendRequest of main.go, the provider-aware one, answered status 401 with
\* the body {"error":{"message":"bad key","type":"auth"}}.
BadKey401 == program = "main" /\ Parsed /\ status = 401 /\ body = BadKeyBody

\* C15: for every provider the body {"error":{"message":"bad key","type":
\* "auth"}} with status 401 fails with the APIError of type "auth" and
\* message "bad key".
C15_BadKeyEveryProvider ==
  BadKey401
    => /\ ret.err.kind \in {"HTTP - API error", "HTTP - Ollama error"}
       /\ ret.err.type = "auth"
       /\ ret.err.msg = "bad key"

\* C15 as the code has it: for openrouter and lmstudio the body fails with
\* the APIError of status 401, type "auth" and message "bad key"; for
\* ollama, whose envelope has a text `error`, the body does not decode and
\* the call fails with the HTTPError of status 401 and the body.
C15_BadKeyByProvider ==
  BadKey401
    => ret.err = IF provider = ProviderOllama
                   THEN HTTPError(401, BadKeyBody)
                   ELSE Err("HTTP - API error", 401, "auth", "bad key")

C15_Witness ==
  /\ BadKey401
  /\ provider = ProviderOllama
  /\ ret.err.kind = "HTTP"
  /\ ret.err.status = 401
  /\ exitCode = 1


\* C16: for openrouter and lmstudio in non-streaming mode, a status-200 body
\* whose envelope carries an error fails with the APIError of that error,
\* whatever `choices` holds: the error is looked at before the choices, the
\* text of a choice is not returned and nothing is printed.
C16_ErrorBeforeChoices ==
  (Parsed /\ IsSSE /\ status = StatusOK /\ ErrorPresent(provider, body))
    => /\ ret.err = APIError(provider, StatusOK, body)
       /\ ret.text = ""
       /\ out = <<>>
       /\ pc = "exit" => exitCode = 1 /\ fatal # <<>>

ErrorWithChoiceBody ==
  Json(<<Choice("", "hi", "stop")>>, ErrObject("bad key", "auth"), "", FALSE)

C16_Witness ==
  /\ Parsed
  /\ provider = ProviderLMStudio
  /\ status = StatusOK
  /\ body = ErrorWithChoiceBody
  /\ ret.err = Err("API error", 0, "auth", "bad key")
  /\ exitCode = 1


\* C17: for openrouter and lmstudio in non-streaming mode, a status-200
\* envelope without an error fails with the EmptyResponseError exactly when
\* `choices` is empty, and otherwise returns choices[0].message.content,
\* whatever the other choices hold; main prints that text and a newline.
C17_FirstChoiceOrEmpty ==
  (Parsed /\ IsSSE /\ status = StatusOK
      /\ DecodesAs(provider, body) /\ ~ErrorPresent(provider, body))
    => /\ IF Len(body.choices) = 0
            THEN ret = Ret("", EmptyResponseError)
            ELSE ret = Ret(body.choices[1].message, NoErr)
       /\ pc = "exit" => IF Len(body.choices) = 0
                           THEN out = <<>> /\ exitCode = 1
                           ELSE /\ out = <<body.choices[1].message, Newline>>
                                /\ exitCode = 0

TwoChoicesBody ==
  Json(<<Choice("", "hi", "stop"), Choice("", "other", "stop")>>, ErrNull, "", FALSE)

C17_Witness ==
  /\ Parsed
  /\ provider = ProviderOpenRouter
  /\ status = StatusOK
  /\ body = TwoChoicesBody
  /\ out = <<"hi", Newline>>
  /\ exitCode = 0


\* C18: for ollama in non-streaming mode, a status-200 envelope fails with
\* the APIError of its `error` exactly when that text is non-empty, and
\* otherwise returns message.content, which main prints with a newline.
C18_OllamaErrorOrContent ==
  (Parsed /\ IsLocalA /\ status = StatusOK /\ DecodesAs(provider, body))
    => LET failed == body.error.kind = "string" /\ ErrorMessage(body) # "" IN
       /\ IF failed
            THEN ret = Ret("", Err("Ollama error", 0, "", ErrorMessage(body)))
            ELSE ret = Ret(body.message, NoErr)
       /\ pc = "exit" => IF failed
                           THEN out = <<>> /\ exitCode = 1
                           ELSE out = <<body.message, Newline>> /\ exitCode = 0

OllamaErrorBody == Json(<<>>, ErrString("model not found"), "hi", TRUE)

C18_Witness ==
  /\ Parsed
  /\ IsLocalA
  /\ status = StatusOK
  /\ body = OllamaErrorBody
  /\ ret.err = Err("Ollama error", 0, "", "model not found")
  /\ out = <<>>
  /\ exitCode = 1


\* C19: in non-streaming mode, for every provider, a body that does not
\* decode as the provider's envelope yields the MalformedResponseError at
\* whichever step decodes it: the error envelope of a response with a status
\* other than 200, or the success envelope of a status-200 response.
C19_MalformedAtAnyStep ==
  (Parsed /\ ~DecodesAs(provider, body)) => ret.err.kind \in MalformedKinds

\* C19 as the code has it: an undecodable body yields the
\* MalformedResponseError when the status is 200; with any other status the
\* failed decode of the error envelope is not reported, and the call fails
\* with the HTTPError of the status and the body.
C19_MalformedOnlyOn200 ==
  (Parsed /\ ~DecodesAs(provider, body))
    => /\ ret.text = ""
       /\ ret.err =
            IF status = StatusOK
              THEN Err(IF IsLocalA THEN "failed to parse Ollama response"
                                   ELSE "failed to parse response", 0, "", "")
              ELSE HTTPError(status, body)

NotJsonBody == Text("{not json}")

C19_Witness ==
  /\ Parsed
  /\ IsLocalA
  /\ status = 500
  /\ body = NotJsonBody
  /\ ret.err = Err("HTTP", 500, "", "{not json}")
  /\ exitCode = 1


\* ---------------------------------------------------------- request body
\* A JSON decoder's reading of the characters of a string.
UnescapeToken(k) ==
  CASE k = "\\\"" -> "\""
    [] k = "\\n" -> "\n"
    [] k = "\\ufffd" -> Replacement
    [] OTHER -> k
DecodeString(j) == [i \in 1..Len(j) |-> UnescapeToken(j[i])]

\* The message list a request body decodes back to.
DecodedMessages(req) ==
  [i \in 1..Len(req.messages) |->
     [role |-> req.messages[i].role,
      content |-> DecodeString(req.messages[i].content)]]

\* A request was built for the prompt read from standard input.
Built == posts = 1

\* C20: for every non-empty prompt and every provider, the request body
\* built for it decodes back to a message list of exactly one entry, with
\* role "user" and the trimmed prompt as its content.
C20_ContentIsTrimmedPrompt ==
  Built => DecodedMessages(request)
             = <<[role |-> "user", content |-> TrimSpace(env.stdin)]>>

\* A text with every byte that is not valid UTF-8 replaced by U+FFFD.
ToValidUTF8(t) ==
  [i \in 1..Len(t) |-> IF t[i] = BadByte THEN Replacement ELSE t[i]]

\* C20 as the code has it: the body decodes back to exactly one entry with
\* role "user"; its content is the trimmed prompt, preceded by the
\* pre-prompt as configured and an empty line when LLM_PRE_PROMPT is set,
\* and with every byte that is not valid UTF-8 replaced by U+FFFD.
C20_RequestRoundTrip ==
  Built =>
    LET trimmed == TrimSpace(env.stdin)
        prompt == IF env.prePrompt # <<>>
                    THEN env.prePrompt \o <<"\n", "\n">> \o trimmed
                    ELSE trimmed IN
    /\ trimmed # <<>>
    /\ DecodedMessages(request)
         = <<[role |-> "user", content |-> ToValidUTF8(prompt)]>>

C20_Witness ==
  /\ Built
  /\ IsLocalA
  /\ env = [stdin |-> <<" ", "\"", BadByte>>, prePrompt |-> <<" ", "b">>]
  /\ request.messages
       = <<[role |-> "user",
            content |-> <<" ", "b", "\\n", "\\n", "\\\"", "\\ufffd">>]>>

\* ------------------------------------------------------ shape of the body
\* The model main sends: LLM_MODEL trimmed, or the provider's default.
ModelName ==
  IF program = "cmd" THEN model
  ELSE LET m == TrimSpace(environ.LLM_MODEL) IN
       IF m = <<>>
         THEN (CASE provider = ProviderOllama -> "llama2"
                 [] provider = ProviderLMStudio -> "local-model"
                 [] OTHER -> "openai/gpt-oss-20b:free")
         ELSE m[1]

\* The body carries the model and the one user message holding the prompt.
CarriesModelAndPrompt ==
  /\ request.model = ModelName
  /\ Len(request.messages) = 1
  /\ request.messages[1].role = "user"
  /\ request.messages[1].content = jsonString(input)
  /\ SubSeq(request.order, 1, 2) \in
       {<<"model", "messages">>, <<"messages", "model">>}

\* C21 as stated: the body of every request carries the model, the
\* one-message list and a `stream` member whose value is the requested
\* flag, for every provider and both values of the flag.
C21_StreamFieldEqualsFlag ==
  Built =>
    /\ CarriesModelAndPrompt
    /\ Len(request.order) = 3
    /\ request.stream = (IF stream THEN "true" ELSE "false")

\* C21: the body of every request carries the model and the one-message
\* list; its `stream` member is true when streaming was requested; when it
\* was not, the member is false for ollama and is left out of the body
\* for openrouter and lmstudio and by the cmd client.
C21_StreamFieldOrOmitted ==
  Built =>
    /\ CarriesModelAndPrompt
    /\ IF stream
         THEN request.stream = "true" /\ Len(request.order) = 3
         ELSE IF program = "main" /\ provider = ProviderOllama
           THEN request.stream = "false" /\ Len(request.order) = 3
           ELSE request.stream = "omitted" /\ request.order = <<"model", "messages">>

C21_Witness ==
  /\ Built
  /\ program = "main"
  /\ provider = ProviderLMStudio
  /\ ~stream
  /\ request.model = "gpt-x"
  /\ request.order = <<"model", "messages">>

\* ------------------------------------------------------------- headers
HeaderNames == {h[1] : h \in request.headers}
Attribution == {"Authorization", "X-Title", "Referer", "HTTP-Referer"}

\* C22: every request carries Content-Type and User-Agent; the requests
\* to openrouter, and only those, carry Authorization with the bearer key
\* and the referrer and title headers; a request to ollama or lmstudio
\* carries none of them, even with a key in the environment.
C22_AuthorizationForOpenRouterOnly ==
  Built =>
    /\ {"Content-Type", "User-Agent"} \subseteq HeaderNames
    /\ IF provider = ProviderOpenRouter
         THEN /\ apiKey # ""
              /\ <<"Authorization", <<"Bearer ", apiKey>>>> \in request.headers
              /\ "X-Title" \in HeaderNames
              /\ HeaderNames \cap {"Referer", "HTTP-Referer"} # {}
         ELSE HeaderNames \cap Attribution = {}

C22_Witness ==
  /\ Built
  /\ provider = ProviderOllama
  /\ apiKey = "sk-key"
  /\ HeaderNames = {"Content-Type", "User-Agent"}

\* ------------------------------------------------------ empty prompt
\* The configuration was accepted and the input source has been read.
ConfigKinds == {"Invalid provider", "API key is required"}
InputRead ==
  /\ pc \notin {"main", "input"}
  /\ ~(fatal # <<>> /\ fatal[1].kind \in ConfigKinds)

\* The prompt, the text of the input with surrounding white space removed,
\* is empty.
EmptyPrompt == TrimSpace(env.stdin) = <<>>

\* The failure of an empty input was reported.
EmptyInputError ==
  IF program = "cmd"
    THEN pc = "ret" /\ ret.err = Err("input is empty", 0, "", "")
    ELSE pc = "exit" /\ fatal = <<Err("input is empty", 0, "", "")>>

C24_AtMostOneRequest ==
  /\ [](posts \in {0, 1} /\ Len(fatal) <= 1)
  /\ [][posts' # posts => posts = 0 /\ ret = NoRet /\ fatal = <<>>]_vars
  /\ [][(pc = "ret" \/ pc = "exit") => (posts' = posts)]_vars
  /\ [][fatal # <<>> => (pc = "exit" /\ fatal' = fatal)]_vars
  /\ [](pc = "exit" /\ ret.err \notin {NoErr, NoRet.err} => Len(fatal) = 1)

C24_Witness ==
  /\ pc = "exit"
  /\ posts = 1
  /\ ret.err = Err("failed to send request", 0, "", "connect")
  /\ Len(fatal) = 1

\* ---------------------------------------------------------- idempotence
\* The requests the builder may produce from the arguments it is called
\* with: provider, model, prompt, streaming flag and key.
PossibleRequests ==
  {NewRequest(IF program = "cmd" THEN openRouterURL
                ELSE getAPIURL(provider, ollamaURL(environ), lmStudioURL(environ)),
              Headers(program, provider, apiKey), o,
              Marshal(program, provider, model, input, stream)) :
     o \in MarshalOrders(program, provider, stream)}

KeyBlank == TrimSpace(Getenv(environ, "OPENROUTER_API_KEY")) = <<>>

KeyRequiredError == Err("API key is required", 0, "", "")

\* C26: with the provider openrouter and OPENROUTER_API_KEY missing or
\* blank the invocation fails with its key error before it reads any input
\* and before it builds any request; with ollama or lmstudio the key error
\* never arises and the invocation goes on to its input and request,
\* key or no key.
C26_KeyRequiredForOpenRouterOnly ==
  (program = "main" /\ pc # "main") =>
    /\ (provider = ProviderOpenRouter /\ KeyBlank) =>
         /\ pc = "exit" /\ exitCode = 1
         /\ fatal = <<KeyRequiredError>>
         /\ env = NoEnv /\ input = <<>> /\ log = <<>>
         /\ posts = 0 /\ request = NoRequest
    /\ (provider = ProviderOpenRouter /\ ~KeyBlank) =>
         /\ apiKey # ""
         /\ \A i \in 1..Len(fatal) : fatal[i] # KeyRequiredError
    /\ provider \in {ProviderOllama, ProviderLMStudio} =>
         /\ \A i \in 1..Len(fatal) : fatal[i] # KeyRequiredError
         /\ pc = "exit" => fatal = <<Err("input is empty", 0, "", "")>>
         /\ pc \in {"input", "send", "body", "errbody", "scan", "ret", "exit"}

C26_Witness ==
  /\ provider = ProviderOllama
  /\ KeyBlank
  /\ environ.OPENROUTER_API_KEY = <<" ">>
  /\ Built
  /\ request.url = defaultOllamaURL

\* ------------------------------------------------------ streaming switch
\* The values that switch a variable on, as the README lists them.
TruthyValues == {<<"1">>, <<"true">>, <<"yes">>, <<"on">>}

\* The configuration was accepted: main went on to its input.
Configured ==
  /\ program = "main"
  /\ pc # "main"
  /\ ~(fatal # <<>> /\ fatal[1].kind \in ConfigKinds)

\* The streaming path was taken for the request.
StreamingPath == Built /\ request.stream = "true"

\* C27 as stated: streaming is selected exactly when OPENROUTER_STREAM is
\* one of 1, true, yes, on, and the non-streaming path for every other
\* value and for the unset variable.
C27_StreamByOpenRouterStream ==
  /\ Configured => (stream <=> Getenv(environ, "OPENROUTER_STREAM") \in TruthyValues)
  /\ Built => (StreamingPath <=> Getenv(environ, "OPENROUTER_STREAM") \in TruthyValues)

\* What main does: streaming is selected exactly when LLM_STREAM, with
\* surrounding white space removed and in lower case, is one of 1, true,
\* yes, on; OPENROUTER_STREAM has no part in it.
StreamByLLMStream ==
  /\ Configured =>
       (stream <=> ToLower(TrimSpace(Getenv(environ, "LLM_STREAM"))) \in TruthyValues)
  /\ Built => (StreamingPath <=> stream)

\* OPENROUTER_STREAM=1 with LLM_STREAM unset, and the request was not a
\* streaming one.
C27_Diverges ==
  /\ Built
  /\ Getenv(environ, "OPENROUTER_STREAM") = <<"1">>
  /\ Getenv(environ, "LLM_STREAM") = <<>>
  /\ ~stream
  /\ request.stream # "true"

\* ------------------------------------------------------- the key is secret
\* Everything the invocation shows: the values printed in log lines, the
\* writes to standard output, and the texts of the errors reported or
\* returned.
Shown ==
  UNION {log[i].args \cup {log[i].fmt} : i \in 1..Len(log)}
  \cup {out[i] : i \in 1..Len(out)}
  \cup UNION {{fatal[i].kind, fatal[i].type, fatal[i].msg} : i \in 1..Len(fatal)}
  \cup {ret.text, ret.err.kind, ret.err.type, ret.err.msg}

\* The key leaves the process in the Authorization header only.
KeyOnlyInAuthorization ==
  \A h \in request.headers :
    (\E i \in 1..Len(h[2]) : h[2][i] = apiKey) => h[1] = "Authorization"

CarriesEnvelope(p, b) ==
  ErrorPresent(p, b) /\ (p = ProviderOllama => ErrorMessage(b) # "")

\* C29: in streaming mode with a status other than 200, for every
\* provider, no line of the stream is read or decoded, no chunk and no
\* newline is written, and the call ends with an error: the API error of
\* the body's envelope when the body carries one, the HTTP error with the
\* status and the body otherwise; the process exits with 1.
C29_Non200StreamNotDecoded ==
  (stream /\ status \notin {0, StatusOK}) =>
    /\ pc \in {"errbody", "ret", "exit"}
    /\ consumed = <<>> /\ chunkCount = 0 /\ scanErr = "nil"
    /\ out = <<>>
    /\ pc \in {"ret", "exit"} =>
         /\ ret.text = ""
         /\ ret.err = IF CarriesEnvelope(provider, body)
                        THEN APIError(provider, status, body)
                        ELSE HTTPError(status, body)
    /\ pc = "exit" =>
         exitCode = 1 /\ fatal = <<Err("Request failed", 0, "", ret.err.kind)>>

C29_Witness ==
  /\ stream
  /\ status = 500
  /\ provider = ProviderOllama
  /\ body = OllamaErrorBody
  /\ pc = "exit"
  /\ ret.err.kind = "HTTP - Ollama error"
  /\ out = <<>>

\* --------------------------------------------------------- closing newline
\* How many newlines of its own the invocation wrote to standard output.
NewlineCount == Cardinality({i \in 1..Len(out) : out[i] = Newline})

\* C30: in streaming mode the newline is written exactly once, as the last
\* write and after every chunk, exactly when the stream ends as Done; while
\* the stream is read and when it is aborted, by an in-band error or a
\* failed read, there is no newline after the chunks written; nothing is
\* written after the newline.
C30_NewlineIffDone ==
  /\ [](stream =>
          /\ NewlineCount = (IF StreamState = "Done" THEN 1 ELSE 0)
          /\ StreamState = "Done" =>
               out = Expected(consumed) \o <<Newline>>
          /\ StreamState = "Aborted" => out = Expected(consumed))
  /\ [][(stream /\ NewlineCount = 1) => (out' = out)]_vars

C30_Witness ==
  /\ IsLocalA
  /\ consumed = <<HiLine, DoneTrueLine>>
  /\ StreamState = "Done"
  /\ out = <<"Hi", Newline>>
  /\ pc = "exit"
  /\ exitCode = 0

====
